---- MODULE Spec2Model ----
(***************************************************************************)
(* Model of the RNE financial-data tooling:                                *)
(*   - update_rne_db.update_db / build_rne_db.build_from_ftp and the       *)
(*     reader enrichment.get_finances (specification SpecStore);           *)
(*   - enrichment_hybrid.enrich_batch_parallel and the shard tasks it      *)
(*     runs on a ThreadPoolExecutor (specifications SpecBatch and          *)
(*     FairSpecBatch).                                                     *)
(* Python strings are sequences of ASCII codes, so that the comparisons,   *)
(* len() and zfill() of the code are computed as Python computes them.     *)
(***************************************************************************)
EXTENDS Integers, Sequences, FiniteSets, TLC

VARIABLES
  \* ---- the store (update_rne_db.py, build_rne_db.py, enrichment.py)
  db,          \* the file at db_path: [exists, rows], rows in rowid order
  backup,      \* the file db.with_suffix(".db.bak"): [exists, rows]
  upc,         \* where update_db is: "idle", "building", "built", "done"
  zip_len,     \* len(json_names): the JSON entries of the downloaded ZIP
  idx,         \* number of ZIP entries the build loop has gone through
  batch,       \* build_from_ftp's pending rows, not yet committed
  total_rows,  \* build_from_ftp's running count of committed rows
  total,       \* update_db's total: what build_from_ftp returned, 0 if it raised
  raised,      \* whether build_from_ftp raised
  ret,         \* what update_db returned (meaningful when upc = "done")
  builds,      \* number of update_db calls started
  pre,         \* history: the store as it was when update_db was called
  extracted,   \* history: every row the current build extracted, in order
  \* ---- the batch enrichment (enrichment_hybrid.py)
  bpc,            \* where enrich_batch_parallel is: "idle", "running", "done"
  sirens,         \* its argument sirens
  max_workers,    \* its argument max_workers
  cb_mode,        \* its argument progress_callback: "none", "ok", "raises"
  grouped,        \* group_sirens_by_rne_file's result, in insertion order
  task,           \* per shard file, its process_batch task: "none", "pending",
                  \* "running", "fetched", "returned", "raised"
  task_result,    \* per shard file: what process_batch returned
  collected,      \* the futures the as_completed loop has gone through
  all_results,    \* enrich_batch_parallel's all_results
  completed_files,\* enrich_batch_parallel's completed_files
  cb_calls,       \* history: the calls progress_callback received, in order
  cache,          \* CACHE_DIR: per shard file, [exists, data]
  cache0,         \* history: CACHE_DIR when enrich_batch_parallel was called
  max_bilans,     \* its argument max_bilans
  \* ---- the range index (create_rne_index_ranges.py, find_file_for_siren)
  zip_data,       \* the bulk archive: per shard file, its records
  index,          \* the 'ranges' list of the index file, once built
  ixpc,           \* "idle", "built" (index written), "looked" (a lookup made)
  q_siren,        \* the identifier last looked up
  q_file,         \* what find_file_for_siren returned for it
  \* ---- the rate-limited search client (app.py); times in milliseconds
  API_DELAY_SECONDS,     \* the base delay, read from the environment
  API_MAX_DELAY_SECONDS, \* the maximum delay, read from the environment
  api_current_delay,     \* st.session_state["api_current_delay"]
  api_next_request_ts,   \* st.session_state["api_next_request_ts"]
  api_rate_limit_hits,   \* st.session_state["api_rate_limit_hits"]
  api_retry_attempts,    \* st.session_state["api_retry_attempts"]
  now,                   \* time.time()
  apc,                   \* _request_search_api: "idle", "attempt", "returned"
  attempt,               \* its loop variable
  api_result,            \* what the call gave: "none" yet, "data", "None", "raised"
  call_requests,         \* history: HTTP requests the current call has issued
  api_requests,          \* history: HTTP requests issued in all
  last_resp,             \* history: the kind of the last response handled
  prev_delay,            \* history: api_current_delay before that response
  resp_now,              \* history: time.time() when it was handled
  n429,                  \* history: consecutive 429 responses of the current call
  \* ---- the two encodings of a record and the metric extractors
  record,         \* a record of a shard in the full encoding
  compact,        \* what extract_key_metrics_only makes of it
  xpc,            \* "idle", "drawn", "compacted", "converted_twice", "lookup", "build"
  out_full,       \* what the extractor gave for the full record
  out_compact,    \* what it gave for the compact record
  \* ---- a query of the store
  fin_args,       \* the (siren, years) get_finances was called with
  fin_result,     \* what it returned
  \* ---- the fetch of a shard (download_json_from_ftp)
  cache_file,     \* the shard's file in the cache directory
  ftp_shard,      \* the shard's records in the ZIP of the FTP server
  fpc,            \* where the fetch is: "idle", "download", "returned"
  ftp_attempt,    \* the loop variable of the download loop
  fetch_result,   \* what the fetch returned
  downloads,      \* history: download attempts of the current fetch
  conversions,    \* history: extract_key_metrics_only calls of the current fetch
  fetches,        \* history: number of fetches started
  prev_result,    \* history: what the last fetch before that returned data gave
  cache_at_call,  \* history: the cache file when the current fetch was called
  last_write,     \* history: how the last cache write of the current fetch went
  write_failed,   \* history: whether a cache write has failed
  \* ---- two callers of the search client that share its rate-limit state
  cpc,        \* where each caller is: "idle", "attempt", "waited", "requested", "returned"
  c_attempt,  \* each caller's loop variable
  c_wake,     \* the time each caller's sleep ends
  c_resp,     \* the response each caller has received and not yet handled
  req_log     \* history: the times of the requests, in the order they were issued

store_vars == <<db, backup, upc, zip_len, idx, batch, total_rows, total, raised,
                ret, builds, pre, extracted>>
batch_vars == <<bpc, sirens, max_workers, cb_mode, grouped, task, task_result,
                collected, all_results, completed_files, cb_calls, cache,
                cache0, max_bilans>>
index_vars == <<zip_data, index, ixpc, q_siren, q_file>>
api_vars == <<API_DELAY_SECONDS, API_MAX_DELAY_SECONDS, api_current_delay,
              api_next_request_ts, api_rate_limit_hits, api_retry_attempts, now,
              apc, attempt, api_result, call_requests, api_requests, last_resp,
              prev_delay, resp_now, n429>>
extract_vars == <<record, compact, xpc, out_full, out_compact>>
query_vars == <<fin_args, fin_result>>
fetch_vars == <<cache_file, ftp_shard, fpc, ftp_attempt, fetch_result,
                downloads, conversions, fetches, prev_result, cache_at_call,
                last_write, write_failed>>
race_vars == <<cpc, c_attempt, c_wake, c_resp, req_log>>
aux_vars == <<index_vars, api_vars, extract_vars, query_vars, fetch_vars,
              race_vars>>
vars == <<store_vars, batch_vars, aux_vars>>

----------------------------------------------------------------------------
\* Python values

\* The string of the decimal digits ds.
Digits(ds) == [i \in 1..Len(ds) |-> 48 + ds[i]]

\* The ISO date string "yyyy-mm-dd".
Date(y, m, d) ==
  Digits(<<y \div 1000, (y \div 100) % 10, (y \div 10) % 10, y % 10>>) \o <<45>>
    \o Digits(<<m \div 10, m % 10>>) \o <<45>> \o Digits(<<d \div 10, d % 10>>)

\* None: no string holds a negative code.
None == << -1 >>

\* The None that find_file_for_siren returns in place of a file name.
NoShard == "None"

\* a < b on Python strings (code point order, a proper prefix is smaller).
RECURSIVE StrLess(_, _)
StrLess(a, b) ==
  IF b = <<>> THEN FALSE
  ELSE IF a = <<>> THEN TRUE
  ELSE IF a[1] # b[1] THEN a[1] < b[1]
  ELSE StrLess(Tail(a), Tail(b))

StrLeq(a, b) == a = b \/ StrLess(a, b)

\* str.zfill(width) on a string of digits.
zfill(s, width) ==
  IF Len(s) >= width THEN s ELSE [i \in 1..(width - Len(s)) |-> 48] \o s

\* A variant that keeps every element.
TakeAll(s, n) == s

\* The first n elements of s (s[:n]).
Take(s, n) == SubSeq(s, 1, IF n < Len(s) THEN n ELSE Len(s))

\* Sequences over S of length at most n.
SeqUpTo(S, n) == UNION {[1..k -> S] : k \in 0..n}

\* A variant that leaves the order as it is.
Unsorted(s, key) == s

\* s sorted by the string keys key (key[i] is the key of s[i]) descending,
\* stable: an element comes
\* before the elements of smaller key and before the later elements of equal
\* key, which is what list.sort(reverse=True) gives, and ORDER BY ... DESC
\* over rows scanned in rowid order.
SortDesc(s, key) ==
  LET Before(i, j) == \/ StrLess(key[j], key[i])
                      \/ (key[i] = key[j] /\ i < j)
      Pos(i)       == 1 + Cardinality({j \in 1..Len(s) : j # i /\ Before(j, i)})
  IN  [p \in 1..Len(s) |-> s[CHOOSE i \in 1..Len(s) : Pos(i) = p]]

----------------------------------------------------------------------------
\* Bounds and program constants

MaxShards == 3     \* JSON entries in a downloaded ZIP
MaxBuilds == 2     \* update_db calls in a behaviour

\* build_from_ftp's batch_size. The code commits every 10 000 rows; the model
\* counts rows in units of 5 000, so that a commit happens inside a build of a
\* few rows.
batch_size == 2

SirenLen == 9

MIN_DATE == Date(2019, 1, 1)

SirenA == Digits(<<0, 0, 5, 8, 8, 0, 5, 9, 6>>)
SirenB == Digits(<<5, 5, 2, 1, 0, 0, 5, 5, 4>>)

----------------------------------------------------------------------------
\* The store: update_db, build_from_ftp, get_finances

\* A file that does not exist, and a store file holding rows.
NoFile == [exists |-> FALSE, rows |-> <<>>]
File(rows) == [exists |-> TRUE, rows |-> rows]

\* A value that Python takes as true: neither None nor the empty string.
Truthy(s) == s # <<>> /\ s # None

\* The items of a shard's JSON array: a dict with siren and dateCloture, or a
\* value that is no dict (item.get raises AttributeError on it).
Item(siren, date) == [isdict |-> TRUE, siren |-> siren, dateCloture |-> date]
NotADict == [isdict |-> FALSE, siren |-> <<>>, dateCloture |-> <<>>]

\* A ZIP entry: a JSON array of items, or bytes that json.load rejects.
Json(items) == [json |-> TRUE, items |-> items]
BadJson == [json |-> FALSE, items |-> <<>>]

ShardPool ==
  { Json(<<Item(SirenA, Date(2021, 12, 31)), Item(SirenB, Date(2018, 12, 31))>>),
    Json(<<Item(SirenA, Date(2022, 12, 31)), Item(SirenB, Date(2020, 6, 30))>>),
    Json(<<NotADict>>),
    BadJson }

\* What build_from_ftp can meet before its loop: FTP credentials missing or no
\* ZIP on the server (it returns 0), an FTP error (it raises), a file that is
\* no ZIP (ZipFile raises after init_db), or a ZIP it can read.
FtpFailures == {"returns_0", "ftp_error", "bad_zip"}

\* extract_bilans_from_json's test of one item (lines 124-130).
KeepItem(item) ==
  /\ Truthy(item.siren)
  /\ Len(item.siren) = SirenLen
  /\ Truthy(item.dateCloture)
  /\ ~StrLess(item.dateCloture, MIN_DATE)

\* extract_bilans_from_json on a JSON array: the rows of the items it keeps,
\* or an exception at the first item that is no dict.
extract_bilans_from_json(items) ==
  LET kept == SelectSeq(items, KeepItem)
  IN  [raised |-> \E i \in 1..Len(items) : ~items[i].isdict,
       rows   |-> [i \in 1..Len(kept) |->
                     [siren |-> kept[i].siren, date_cloture |-> kept[i].dateCloture]]]

\* init_db: sqlite3.connect creates the file when it is missing, and
\* CREATE TABLE IF NOT EXISTS leaves an existing table and its rows alone.
init_db(d) == IF d.exists THEN d ELSE File(<<>>)

\* conn.executemany(INSERT_SQL, rows); conn.commit()
\* a variant of the insert that skips a row the table already holds
CommitDistinct(d, rows) ==
  LET New(r) == \A i \in 1..Len(d.rows) : d.rows[i] # r
  IN  File(d.rows \o SelectSeq(rows, New))

Commit(d, rows) == File(d.rows \o rows)

\* update_db up to build_from_ftp's loop: the backup copy, the download,
\* init_db.
UpdateStart(n, ftp) ==
  /\ upc \in {"idle", "done"}
  /\ builds < MaxBuilds
  /\ builds' = builds + 1
  /\ pre' = db
  /\ backup' = IF db.exists THEN db ELSE backup
  /\ extracted' = <<>>
  /\ batch' = <<>>
  /\ total_rows' = 0
  /\ idx' = 0
  /\ ret' = FALSE
  /\ total' = 0
  /\ CASE ftp = "returns_0" ->
            /\ upc' = "built" /\ raised' = FALSE /\ zip_len' = 0 /\ db' = db
       [] ftp = "ftp_error" ->
            /\ upc' = "built" /\ raised' = TRUE /\ zip_len' = 0 /\ db' = db
       [] ftp = "bad_zip" ->
            /\ upc' = "built" /\ raised' = TRUE /\ zip_len' = 0 /\ db' = init_db(db)
       [] OTHER ->
            /\ upc' = "building" /\ raised' = FALSE /\ zip_len' = n /\ db' = init_db(db)
  /\ UNCHANGED <<batch_vars, aux_vars>>

\* One turn of build_from_ftp's loop over the ZIP's JSON entries, on the
\* entry it reads.
BuildShard(entry) ==
  /\ upc = "building"
  /\ idx < zip_len
  /\ LET r     == extract_bilans_from_json(entry.items)
         b2    == batch \o r.rows
     IN  /\ idx' = idx + 1
         /\ IF ~entry.json
            THEN \* json.JSONDecodeError: logged, the entry is skipped
                 UNCHANGED <<db, batch, total_rows, total, raised, upc, extracted>>
            ELSE IF r.raised
            THEN \* not a JSONDecodeError nor an OSError: build_from_ftp raises
                 \* and update_db sets total = 0
                 /\ upc' = "built" /\ raised' = TRUE /\ total' = 0
                 /\ UNCHANGED <<db, batch, total_rows, extracted>>
            ELSE /\ extracted' = extracted \o r.rows
                 /\ IF Len(b2) >= batch_size
                    THEN /\ db' = Commit(db, b2)
                         /\ total_rows' = total_rows + Len(b2)
                         /\ batch' = <<>>
                    ELSE /\ batch' = b2
                         /\ UNCHANGED <<db, total_rows>>
                 /\ UNCHANGED <<total, raised, upc>>
  /\ UNCHANGED <<backup, zip_len, ret, builds, pre>>
  /\ UNCHANGED <<batch_vars, aux_vars>>

\* build_from_ftp after its loop: the last commit, and the count it returns.
BuildFinish ==
  /\ upc = "building"
  /\ idx = zip_len
  /\ db' = IF batch # <<>> THEN Commit(db, batch) ELSE db
  /\ total_rows' = total_rows + Len(batch)
  /\ total' = total_rows + Len(batch)
  /\ batch' = <<>>
  /\ upc' = "built"
  /\ UNCHANGED <<backup, zip_len, idx, raised, ret, builds, pre, extracted>>
  /\ UNCHANGED <<batch_vars, aux_vars>>

\* update_db lines 73-74: the store after shutil.move(backup, db), when there
\* is a backup.
Restore(d, b) == IF b.exists THEN b ELSE d

\* update_db after the build: the backup removed, or moved back.
UpdateFinish ==
  /\ upc = "built"
  /\ upc' = "done"
  /\ IF total > 0
     THEN /\ ret' = TRUE
          /\ backup' = NoFile
          /\ db' = db
     ELSE /\ ret' = FALSE
          /\ db' = Restore(db, backup)
          /\ backup' = NoFile
  /\ UNCHANGED <<zip_len, idx, batch, total_rows, total, raised, builds, pre, extracted>>
  /\ UNCHANGED <<batch_vars, aux_vars>>

\* get_finances(siren, years) when the store file is d. The call reads the
\* committed rows of the file and changes nothing: a reader that calls it
\* between two steps of update_db gets its value in the state between them.
get_finances(d, siren, years) ==
  IF ~d.exists
  THEN [success |-> FALSE, bilans |-> <<>>, count |-> 0]
  ELSE LET Match(r) == r.siren = zfill(siren, SirenLen)
           found    == SelectSeq(d.rows, Match)
           key      == [i \in 1..Len(found) |-> found[i].date_cloture]
           rows     == Take(SortDesc(found, key), years)
       IN  [success |-> Len(rows) > 0, bilans |-> rows, count |-> Len(rows)]

\* "005880596" given without its leading zeros, and "552100554".
QuerySirens == {Digits(<<5, 8, 8, 0, 5, 9, 6>>), SirenB}
QueryYears == {1, 7}

\* The stores update_db can be called on first: no file, an empty store, a
\* store of one row.
InitStores == {NoFile, File(<<>>),
               File(<<[siren |-> SirenA, date_cloture |-> Date(2020, 12, 31)]>>)}

InitStore ==
  /\ db \in InitStores
  /\ backup = NoFile
  /\ upc = "idle"
  /\ zip_len = 0
  /\ idx = 0
  /\ batch = <<>>
  /\ total_rows = 0
  /\ total = 0
  /\ raised = FALSE
  /\ ret = FALSE
  /\ builds = 0
  /\ pre = NoFile
  /\ extracted = <<>>
  \* the batch enrichment is not running
  /\ bpc = "idle"
  /\ sirens = <<>>
  /\ max_workers = 1
  /\ cb_mode = "none"
  /\ max_bilans = 10
  /\ grouped = <<>>
  /\ task = [f \in {} |-> "none"]
  /\ task_result = <<>>
  /\ collected = {}
  /\ all_results = <<>>
  /\ completed_files = 0
  /\ cb_calls = <<>>
  /\ cache = <<>>
  /\ cache0 = <<>>
  \* no index is being built
  /\ zip_data = <<>>
  /\ index = <<>>
  /\ ixpc = "idle"
  /\ q_siren = <<>>
  /\ q_file = NoShard
  \* no search request is being made
  /\ API_DELAY_SECONDS = 800
  /\ API_MAX_DELAY_SECONDS = 8000
  /\ api_current_delay = 800
  /\ api_next_request_ts = 0
  /\ api_rate_limit_hits = 0
  /\ api_retry_attempts = 0
  /\ now = 1000
  /\ apc = "idle"
  /\ attempt = 0
  /\ api_result = "none"
  /\ call_requests = 0
  /\ api_requests = 0
  /\ last_resp = "none"
  /\ prev_delay = 800
  /\ resp_now = 0
  /\ n429 = 0
  \* no record is being extracted
  /\ record = <<>>
  /\ compact = <<>>
  /\ xpc = "idle"
  /\ out_full = <<>>
  /\ out_compact = <<>>
  \* no query is made
  /\ fin_args = <<>>
  /\ fin_result = <<>>
  \* no shard is being fetched
  /\ cache_file = [state |-> "absent", data |-> <<>>]
  /\ ftp_shard = <<>>
  /\ fpc = "idle"
  /\ ftp_attempt = 0
  /\ fetch_result = [some |-> FALSE, data |-> <<>>]
  /\ downloads = 0
  /\ conversions = 0
  /\ fetches = 0
  /\ prev_result = [some |-> FALSE, data |-> <<>>]
  /\ cache_at_call = [state |-> "absent", data |-> <<>>]
  /\ last_write = "none"
  /\ write_failed = FALSE
  \* no two callers share the search client
  /\ cpc = <<>>
  /\ c_attempt = <<>>
  /\ c_wake = <<>>
  /\ c_resp = <<>>
  /\ req_log = <<>>

NextStore ==
  \/ \E ftp \in FtpFailures : UpdateStart(0, ftp)
  \/ \E n \in 0..MaxShards : UpdateStart(n, "ok")
  \/ \E entry \in ShardPool : BuildShard(entry)
  \/ BuildFinish
  \/ UpdateFinish

----------------------------------------------------------------------------
\* The bulk dataset and its range index

MaxIds == 3       \* identifiers in one enrich_batch_parallel call
MaxWorkers == 2   \* largest max_workers a call is given

LIMITED_SPACE_MODE == TRUE
STREAMING_MODE == TRUE

\* process_batch keeps the cache entry of the files numbered below this.
FIRST_CLEANED_FILE == 85

F1 == "stock_000001.json"
F85 == "stock_000085.json"
F86 == "stock_000086.json"
Files == {F1, F85, F86}

\* sorted(zf.namelist()) of the bulk archive.
json_files == <<F1, F85, F86>>

\* int(filename.replace('stock_', '').replace('.json', ''))
file_num(f) == CASE f = F1 -> 1 [] f = F85 -> 85 [] f = F86 -> 86

Siren1 == Digits(<<0, 0, 5, 8, 8, 0, 5, 9, 6>>)
Siren1Short == Digits(<<5, 8, 8, 0, 5, 9, 6>>)
Siren2 == Digits(<<0, 0, 9, 0, 0, 0, 0, 0, 0>>)
Siren3 == Digits(<<5, 5, 2, 1, 0, 0, 5, 5, 4>>)
Siren4 == Digits(<<5, 5, 2, 1, 0, 0, 6, 0, 0>>)
SirenGap == Digits(<<6, 0, 0, 0, 0, 0, 0, 0, 0>>)
Siren5 == Digits(<<7, 7, 5, 6, 6, 5, 0, 1, 9>>)

\* A record of a shard, as the fetch returns it.
Rec(siren, cloture, depot) ==
  [siren |-> siren, dateCloture |-> cloture, dateDepot |-> depot]

\* The shards of the bulk archive. Siren4 has a record without dateCloture.
Data1 ==
  << Rec(Siren1, Date(2021, 12, 31), Date(2022, 6, 1)),
     Rec(Siren2, Date(2020, 12, 31), Date(2021, 6, 2)),
     Rec(Siren1, Date(2022, 12, 31), Date(2023, 6, 3)) >>
Data85 ==
  << Rec(Siren3, Date(2021, 12, 31), Date(2022, 6, 4)),
     Rec(Siren4, None, Date(2022, 6, 5)),
     Rec(Siren4, Date(2022, 12, 31), Date(2023, 6, 6)),
     Rec(Siren3, Date(2023, 12, 31), Date(2024, 6, 7)) >>
Data86 ==
  << Rec(Siren5, Date(2022, 12, 31), Date(2023, 6, 8)) >>

\* What the server holds under the name f.
FtpData(f) == CASE f = F1 -> Data1 [] f = F85 -> Data85 [] f = F86 -> Data86

\* The smallest and the largest string of a non-empty sequence of strings.
RECURSIVE StrMin(_)
StrMin(s) ==
  IF Len(s) = 1 THEN s[1]
  ELSE LET m == StrMin(Tail(s)) IN IF StrLess(m, s[1]) THEN m ELSE s[1]

RECURSIVE StrMax(_)
StrMax(s) ==
  IF Len(s) = 1 THEN s[1]
  ELSE LET m == StrMax(Tail(s)) IN IF StrLess(s[1], m) THEN m ELSE s[1]

\* create_rne_index_ranges on an archive whose shard f holds the records
\* zdata[f]: one entry per shard that holds an identifier, in the order of
\* files (the sorted names); the entries are appended as the shards come and
\* are not sorted by identifier.
RECURSIVE build_ranges_of(_, _)
build_ranges_of(files, zdata) ==
  IF files = <<>> THEN <<>>
  ELSE LET data   == zdata[Head(files)]
           HasSiren(b) == Truthy(b.siren)
           having == SelectSeq(data, HasSiren)
           ids    == [i \in 1..Len(having) |-> having[i].siren]
       IN  (IF ids = <<>> THEN <<>>
            ELSE << [file |-> Head(files), siren_min |-> StrMin(ids),
                     siren_max |-> StrMax(ids)] >>)
           \o build_ranges_of(Tail(files), zdata)

\* create_rne_index_ranges on the archive the batch enrichment reads.
build_ranges(files) == build_ranges_of(files, [f \in Files |-> FtpData(f)])

\* load_ranges_index()['ranges']
ranges == build_ranges(json_files)

\* A binary search that, when no range holds the identifier, answers with the
\* file of the range next to where the search ended.
RECURSIVE find_nearest(_, _, _, _)
find_nearest(siren, rs, left, right) ==
  IF left > right
  THEN IF rs = <<>> THEN NoShard
       ELSE rs[IF right >= 1 THEN right ELSE 1].file
  ELSE LET mid == (left + right) \div 2
           r   == rs[mid]
       IN  IF StrLeq(r.siren_min, siren) /\ StrLeq(siren, r.siren_max)
           THEN r.file
           ELSE IF StrLess(siren, r.siren_min)
           THEN find_nearest(siren, rs, left, mid - 1)
           ELSE find_nearest(siren, rs, mid + 1, right)

\* find_file_for_siren's binary search over ranges[left..right].
RECURSIVE find_between(_, _, _, _)
find_between(siren, rs, left, right) ==
  IF left > right THEN NoShard
  ELSE LET mid == (left + right) \div 2
           r   == rs[mid]
       IN  IF StrLeq(r.siren_min, siren) /\ StrLeq(siren, r.siren_max)
           THEN r.file
           ELSE IF StrLess(siren, r.siren_min)
           THEN find_between(siren, rs, left, mid - 1)
           ELSE find_between(siren, rs, mid + 1, right)

find_file_for_siren(siren, rs) ==
  find_between(zfill(siren, SirenLen), rs, 1, Len(rs))

----------------------------------------------------------------------------
\* The batch enrichment: group_sirens_by_rne_file, process_batch,
\* enrich_batch_parallel

\* group_sirens_by_rne_file's loop: g is the dict built so far, as the
\* sequence of its items.
RECURSIVE group_from(_, _)
group_from(ss, g) ==
  IF ss = <<>> THEN g
  ELSE LET siren    == Head(ss)
           filename == find_file_for_siren(siren, ranges)
       IN  IF filename = NoShard
           THEN group_from(Tail(ss), g)
           ELSE IF \E i \in 1..Len(g) : g[i].file = filename
           THEN group_from(Tail(ss),
                  [i \in 1..Len(g) |->
                     IF g[i].file = filename
                     THEN [g[i] EXCEPT !.sirens = Append(@, siren)]
                     ELSE g[i]])
           ELSE group_from(Tail(ss),
                  Append(g, [file |-> filename, sirens |-> <<siren>>]))

group_sirens_by_rne_file(ss) == group_from(ss, <<>>)

\* The files of a grouped dict, and the sirens grouped under a file.
GroupFiles(g) == {g[i].file : i \in 1..Len(g)}
GroupSirens(g, f) == (CHOOSE i \in 1..Len(g) : g[i].file = f)
FileSirens(g, f) == g[GroupSirens(g, f)].sirens

\* A cache entry that does not exist, and one that holds data.
NoEntry == [exists |-> FALSE, data |-> <<>>]
Entry(data) == [exists |-> TRUE, data |-> data]

\* extract_key_metrics_only, on the fields of a record the model keeps.
extract_key_metrics_only(data) ==
  IF ~STREAMING_MODE THEN data
  ELSE [i \in 1..Len(data) |->
          Rec(data[i].siren, data[i].dateCloture, data[i].dateDepot)]

\* extract_financial_data on a record in the compact encoding.
extract_financial_data(b) ==
  [date_cloture |-> b.dateCloture, date_depot |-> b.dateDepot,
   denomination |-> <<>>]

\* process_batch line 641 without its test of the record's siren.
BilansOfUnfiltered(data, siren) == data

\* process_batch line 641: the records of the shard that are siren's.
BilansOf(data, siren) ==
  LET Mine(b) == b.siren = zfill(siren, SirenLen)
  IN  SelectSeq(data, Mine)

\* bilans.sort(key=dateCloture) raises TypeError when it has to compare a
\* None: with two records or more, one of them without dateCloture.
SortRaises(bilans) ==
  /\ Len(bilans) >= 2
  /\ \E i \in 1..Len(bilans) : bilans[i].dateCloture = None

\* Whether process_batch's loop over sirens raises.
ProcessRaises(data, ss) ==
  \E i \in 1..Len(ss) : SortRaises(BilansOf(data, ss[i]))

\* process_batch lines 640-661: the result of one siren.
ResultFor(data, siren, mb) ==
  LET bilans   == BilansOf(data, siren)
      key      == [i \in 1..Len(bilans) |-> bilans[i].dateCloture]
      kept     == Take(SortDesc(bilans, key), mb)
      history  == [i \in 1..Len(kept) |-> extract_financial_data(kept[i])]
  IN  IF bilans # <<>>
      THEN [success |-> TRUE, siren |-> zfill(siren, SirenLen), error |-> "",
            nb_bilans |-> Len(history), bilans |-> history]
      ELSE [success |-> FALSE, siren |-> zfill(siren, SirenLen),
            error |-> "Aucun bilan", nb_bilans |-> 0, bilans |-> <<>>]

\* process_batch line 634: the record of a siren whose shard was not fetched.
DownloadFailure ==
  [success |-> FALSE, siren |-> None, error |-> "Erreur telechargement",
   nb_bilans |-> 0, bilans |-> <<>>]

\* The set of the elements of a sequence.
Range(s) == {s[i] : i \in 1..Len(s)}

\* process_batch lines 627-629: whether the task cleans its cache entry.
Cleanup(f) ==
  IF LIMITED_SPACE_MODE THEN file_num(f) >= FIRST_CLEANED_FILE ELSE TRUE

\* all_results = batch_results in place of all_results.update(batch_results).
UpdateReplaces(a, b) == b

\* dict.update
Update(a, b) ==
  [k \in DOMAIN a \cup DOMAIN b |-> IF k \in DOMAIN b THEN b[k] ELSE a[k]]

\* The tasks a worker thread is running.
Running == {f \in Files : task[f] \in {"running", "fetched"}}

\* An executor that starts a thread for every queued task.
WorkerFreeAlways == TRUE

\* ThreadPoolExecutor(max_workers): a queued task starts when one of the
\* max_workers threads is free.
WorkerFree == Cardinality(Running) < max_workers

IdPool == {Siren1, Siren1Short, Siren3, Siren4, Siren5, SirenGap}
CallbackModes == {"none", "ok", "raises"}
MaxBilansPool == {1, 10}

\* enrich_batch_parallel up to the submission of the tasks (lines 698-722).
Start(ss, mw, cb, mb) ==
  /\ bpc = "idle"
  /\ sirens' = ss
  /\ max_workers' = mw
  /\ cb_mode' = cb
  /\ max_bilans' = mb
  /\ cache0' = cache
  /\ LET g == group_sirens_by_rne_file(ss)
     IN  /\ grouped' = g
         /\ bpc' = IF g = <<>> THEN "done" ELSE "running"
         /\ task' = [f \in Files |-> IF f \in GroupFiles(g) THEN "pending" ELSE "none"]
  /\ UNCHANGED <<task_result, collected, all_results, completed_files, cb_calls, cache>>
  /\ UNCHANGED <<store_vars, aux_vars>>

\* A worker thread takes the next queued task.
TaskStart(f) ==
  /\ bpc = "running"
  /\ task[f] = "pending"
  /\ \A i \in 1..(GroupSirens(grouped, f) - 1) : task[grouped[i].file] # "pending"
  /\ WorkerFree
  /\ task' = [task EXCEPT ![f] = "running"]
  /\ UNCHANGED <<bpc, sirens, max_workers, cb_mode, max_bilans, grouped, task_result,
                 collected, all_results, completed_files, cb_calls, cache, cache0>>
  /\ UNCHANGED <<store_vars, aux_vars>>

\* process_batch line 632-634: download_json_from_ftp, from the cache or from
\* the server (ok: a download attempt succeeds; otherwise none does).
TaskFetch(f, ok) ==
  /\ task[f] = "running"
  /\ LET hit   == cache[f].exists
         data  == IF hit THEN cache[f].data
                  ELSE IF ok THEN extract_key_metrics_only(FtpData(f))
                  ELSE <<>>
     IN  /\ cache' = IF ~hit /\ ok THEN [cache EXCEPT ![f] = Entry(data)] ELSE cache
         /\ IF data = <<>>
            THEN /\ task' = [task EXCEPT ![f] = "returned"]
                 /\ task_result' = [task_result EXCEPT ![f] =
                      [s \in Range(FileSirens(grouped, f)) |-> DownloadFailure]]
            ELSE /\ task' = [task EXCEPT ![f] = "fetched"]
                 /\ UNCHANGED task_result
  /\ UNCHANGED <<bpc, sirens, max_workers, cb_mode, max_bilans, grouped,
                 collected, all_results, completed_files, cb_calls, cache0>>
  /\ UNCHANGED <<store_vars, aux_vars>>

\* process_batch lines 636-674: the results of the sirens, then the cleanup.
TaskProcess(f) ==
  /\ task[f] = "fetched"
  /\ LET data == cache[f].data
         ss   == FileSirens(grouped, f)
     IN  IF ProcessRaises(data, ss)
         THEN /\ task' = [task EXCEPT ![f] = "raised"]
              /\ UNCHANGED <<task_result, cache>>
         ELSE /\ task' = [task EXCEPT ![f] = "returned"]
              /\ task_result' = [task_result EXCEPT ![f] =
                   [s \in Range(ss) |-> ResultFor(data, s, max_bilans)]]
              /\ cache' = IF Cleanup(f) THEN [cache EXCEPT ![f] = NoEntry] ELSE cache
  /\ UNCHANGED <<bpc, sirens, max_workers, cb_mode, max_bilans, grouped,
                 collected, all_results, completed_files, cb_calls, cache0>>
  /\ UNCHANGED <<store_vars, aux_vars>>

\* The as_completed loop on a future whose task returned (lines 728-734);
\* cb_raises: the progress callback raises, and line 739 counts again.
CollectReturned(f, cb_raises) ==
  /\ all_results' = Update(all_results, task_result[f])
  /\ cb_calls' = IF cb_mode = "none" THEN cb_calls
                 ELSE Append(cb_calls, <<completed_files + 1, Len(grouped), f>>)
  /\ completed_files' = IF cb_mode = "raises" /\ cb_raises
                        THEN completed_files + 2 ELSE completed_files + 1

\* The as_completed loop on a future whose task raised (lines 736-739).
CollectRaised(f) ==
  /\ completed_files' = completed_files + 1
  /\ UNCHANGED <<all_results, cb_calls>>

Collect(f, cb_raises) ==
  /\ bpc = "running"
  /\ f \notin collected
  /\ task[f] \in {"returned", "raised"}
  /\ collected' = collected \cup {f}
  /\ IF task[f] = "returned" THEN CollectReturned(f, cb_raises) ELSE CollectRaised(f)
  /\ UNCHANGED <<bpc, sirens, max_workers, cb_mode, max_bilans, grouped, task,
                 task_result, cache, cache0>>
  /\ UNCHANGED <<store_vars, aux_vars>>

\* enrich_batch_parallel returns all_results (line 751).
Return ==
  /\ bpc = "running"
  /\ collected = GroupFiles(grouped)
  /\ bpc' = "done"
  /\ UNCHANGED <<sirens, max_workers, cb_mode, max_bilans, grouped, task, task_result,
                 collected, all_results, completed_files, cb_calls, cache, cache0>>
  /\ UNCHANGED <<store_vars, aux_vars>>

\* The caches a call can find: empty, or holding the shard an earlier call
\* fetched and kept.
InitCaches ==
  { [f \in Files |-> NoEntry],
    [f \in Files |-> IF f = F1 THEN Entry(extract_key_metrics_only(FtpData(F1)))
                     ELSE NoEntry] }

InitBatch ==
  /\ bpc = "idle"
  /\ sirens = <<>>
  /\ max_workers = 1
  /\ cb_mode = "none"
  /\ max_bilans = 10
  /\ grouped = <<>>
  /\ task = [f \in Files |-> "none"]
  /\ task_result = [f \in Files |-> <<>>]
  /\ collected = {}
  /\ all_results = <<>>
  /\ completed_files = 0
  /\ cb_calls = <<>>
  /\ cache \in InitCaches
  /\ cache0 = cache
  \* the store is not being updated
  /\ db = NoFile
  /\ backup = NoFile
  /\ upc = "idle"
  /\ zip_len = 0
  /\ idx = 0
  /\ batch = <<>>
  /\ total_rows = 0
  /\ total = 0
  /\ raised = FALSE
  /\ ret = FALSE
  /\ builds = 0
  /\ pre = NoFile
  /\ extracted = <<>>
  \* no index is being built
  /\ zip_data = <<>>
  /\ index = <<>>
  /\ ixpc = "idle"
  /\ q_siren = <<>>
  /\ q_file = NoShard
  \* no search request is being made
  /\ API_DELAY_SECONDS = 800
  /\ API_MAX_DELAY_SECONDS = 8000
  /\ api_current_delay = 800
  /\ api_next_request_ts = 0
  /\ api_rate_limit_hits = 0
  /\ api_retry_attempts = 0
  /\ now = 1000
  /\ apc = "idle"
  /\ attempt = 0
  /\ api_result = "none"
  /\ call_requests = 0
  /\ api_requests = 0
  /\ last_resp = "none"
  /\ prev_delay = 800
  /\ resp_now = 0
  /\ n429 = 0
  \* no record is being extracted
  /\ record = <<>>
  /\ compact = <<>>
  /\ xpc = "idle"
  /\ out_full = <<>>
  /\ out_compact = <<>>
  \* no query is made
  /\ fin_args = <<>>
  /\ fin_result = <<>>
  \* no shard is being fetched
  /\ cache_file = [state |-> "absent", data |-> <<>>]
  /\ ftp_shard = <<>>
  /\ fpc = "idle"
  /\ ftp_attempt = 0
  /\ fetch_result = [some |-> FALSE, data |-> <<>>]
  /\ downloads = 0
  /\ conversions = 0
  /\ fetches = 0
  /\ prev_result = [some |-> FALSE, data |-> <<>>]
  /\ cache_at_call = [state |-> "absent", data |-> <<>>]
  /\ last_write = "none"
  /\ write_failed = FALSE
  \* no two callers share the search client
  /\ cpc = <<>>
  /\ c_attempt = <<>>
  /\ c_wake = <<>>
  /\ c_resp = <<>>
  /\ req_log = <<>>

\* The lists of identifiers a call is given: up to MaxIds identifiers of
\* IdPool, repeated or not, in ascending order.
IdLists ==
  {ss \in SeqUpTo(IdPool, MaxIds) :
     \A i \in 1..(Len(ss) - 1) : StrLeq(ss[i], ss[i + 1])}

\* The steps of the worker threads and of the as_completed loop.
Step ==
  \/ \E f \in Files : TaskStart(f)
  \/ \E f \in Files, ok \in BOOLEAN : TaskFetch(f, ok)
  \/ \E f \in Files : TaskProcess(f)
  \/ \E f \in Files, cb_raises \in BOOLEAN : Collect(f, cb_raises)
  \/ Return

NextBatch ==
  \/ /\ bpc = "idle"
     /\ \E ss \in IdLists, mw \in 1..MaxWorkers, cb \in CallbackModes,
           mb \in MaxBilansPool : Start(ss, mw, cb, mb)
  \/ Step

\* The lists of distinct identifiers among IdLists.
DistinctIdLists == {ss \in IdLists : Cardinality(Range(ss)) = Len(ss)}

\* Calls with the defaults of enrich_batch_parallel (line 677): max_bilans
\* = 10 and no progress_callback.
NextBatchDefault ==
  \/ /\ bpc = "idle"
     /\ \E ss \in DistinctIdLists, mw \in 1..MaxWorkers : Start(ss, mw, "none", 10)
  \/ Step

SpecStore == InitStore /\ [][NextStore]_vars

SpecBatch == InitBatch /\ [][NextBatch]_vars

\* The worker threads and the as_completed loop keep running: a step that
\* stays possible is taken.
FairSpecBatch == InitBatch /\ [][NextBatchDefault]_vars /\ WF_vars(Step)

----------------------------------------------------------------------------
\* The index build and the lookup, on any archive (SpecIndex)

MaxIndexFiles == 3   \* shard files in the archive the index is built from

F87 == "stock_000087.json"

\* sorted(zf.namelist()) of the archive: its first MaxIndexFiles names.
index_files == SubSeq(<<F1, F85, F86, F87>>, 1, MaxIndexFiles)

SirenLow == Digits(<<1>>)
SirenHigh == Digits(<<9, 9, 9, 9, 9, 9, 9, 9, 9>>)

\* What a shard of the archive can hold: no record, a record without siren,
\* or records of one or two of three identifiers.
ShardContents ==
  { <<>>, << [siren |-> <<>>] >>,
    << [siren |-> Siren1] >>, << [siren |-> Siren3] >>, << [siren |-> Siren5] >>,
    << [siren |-> Siren1], [siren |-> Siren3] >>,
    << [siren |-> Siren5], [siren |-> Siren1] >>,
    << [siren |-> Siren3], [siren |-> Siren5] >> }

\* The identifiers looked up: those of the shards, one given without its
\* leading zeros, and identifiers below, between and above them.
LookupIds ==
  {SirenLow, Siren1, Siren1Short, Siren2, Siren3, SirenGap, Siren5, SirenHigh}

\* create_rne_index_ranges.py run on the archive.
BuildIndex ==
  /\ ixpc = "idle"
  /\ zip_data # <<>>
  /\ index' = build_ranges_of(index_files, zip_data)
  /\ ixpc' = "built"
  /\ UNCHANGED <<zip_data, q_siren, q_file>>
  /\ UNCHANGED <<store_vars, batch_vars, api_vars, extract_vars, query_vars, fetch_vars,
                 race_vars>>

\* find_file_for_siren(siren, ranges) on the index that was built.
Lookup(siren) ==
  /\ ixpc \in {"built", "looked"}
  /\ q_siren' = siren
  /\ q_file' = find_file_for_siren(siren, index)
  /\ ixpc' = "looked"
  /\ UNCHANGED <<zip_data, index>>
  /\ UNCHANGED <<store_vars, batch_vars, api_vars, extract_vars, query_vars, fetch_vars,
                 race_vars>>

InitIndex ==
  /\ zip_data \in [Range(index_files) -> ShardContents]
  /\ index = <<>>
  /\ ixpc = "idle"
  /\ q_siren = <<>>
  /\ q_file = NoShard
  \* the store is not being updated
  /\ db = NoFile
  /\ backup = NoFile
  /\ upc = "idle"
  /\ zip_len = 0
  /\ idx = 0
  /\ batch = <<>>
  /\ total_rows = 0
  /\ total = 0
  /\ raised = FALSE
  /\ ret = FALSE
  /\ builds = 0
  /\ pre = NoFile
  /\ extracted = <<>>
  \* the batch enrichment is not running
  /\ bpc = "idle"
  /\ sirens = <<>>
  /\ max_workers = 1
  /\ cb_mode = "none"
  /\ max_bilans = 10
  /\ grouped = <<>>
  /\ task = [f \in {} |-> "none"]
  /\ task_result = <<>>
  /\ collected = {}
  /\ all_results = <<>>
  /\ completed_files = 0
  /\ cb_calls = <<>>
  /\ cache = <<>>
  /\ cache0 = <<>>
  \* no search request is being made
  /\ API_DELAY_SECONDS = 800
  /\ API_MAX_DELAY_SECONDS = 8000
  /\ api_current_delay = 800
  /\ api_next_request_ts = 0
  /\ api_rate_limit_hits = 0
  /\ api_retry_attempts = 0
  /\ now = 1000
  /\ apc = "idle"
  /\ attempt = 0
  /\ api_result = "none"
  /\ call_requests = 0
  /\ api_requests = 0
  /\ last_resp = "none"
  /\ prev_delay = 800
  /\ resp_now = 0
  /\ n429 = 0
  \* no record is being extracted
  /\ record = <<>>
  /\ compact = <<>>
  /\ xpc = "idle"
  /\ out_full = <<>>
  /\ out_compact = <<>>
  \* no query is made
  /\ fin_args = <<>>
  /\ fin_result = <<>>
  \* no shard is being fetched
  /\ cache_file = [state |-> "absent", data |-> <<>>]
  /\ ftp_shard = <<>>
  /\ fpc = "idle"
  /\ ftp_attempt = 0
  /\ fetch_result = [some |-> FALSE, data |-> <<>>]
  /\ downloads = 0
  /\ conversions = 0
  /\ fetches = 0
  /\ prev_result = [some |-> FALSE, data |-> <<>>]
  /\ cache_at_call = [state |-> "absent", data |-> <<>>]
  /\ last_write = "none"
  /\ write_failed = FALSE
  \* no two callers share the search client
  /\ cpc = <<>>
  /\ c_attempt = <<>>
  /\ c_wake = <<>>
  /\ c_resp = <<>>
  /\ req_log = <<>>

NextIndex ==
  \/ BuildIndex
  \/ \E siren \in LookupIds : Lookup(siren)

SpecIndex == InitIndex /\ [][NextIndex]_vars

(***************************************************************************)
(* The rate-limited search client of app.py.  Times are integers in        *)
(* milliseconds; a product with 0.95 or 1.7 ** attempt is rounded down to  *)
(* the millisecond.  A request takes no time: the clock only advances by   *)
(* the sleep of _wait_for_rate_limit_slot.                                 *)
(***************************************************************************)
API_MAX_RETRIES == 3
MaxRequests == 5

\* (API_DELAY_SECONDS, API_MAX_DELAY_SECONDS) as the environment can set them
ApiConfigs == {<<800, 8000>>, <<800, 1000>>, <<2000, 1000>>}

\* the Retry-After header of a response: absent, not a number, or seconds
RetryAfterHeaders ==
  {[present |-> FALSE, numeric |-> FALSE, seconds |-> 0],
   [present |-> TRUE, numeric |-> FALSE, seconds |-> 0],
   [present |-> TRUE, numeric |-> TRUE, seconds |-> -5],
   [present |-> TRUE, numeric |-> TRUE, seconds |-> 2],
   [present |-> TRUE, numeric |-> TRUE, seconds |-> 30]}

NoRetryAfter == [some |-> FALSE, ms |-> 0]

get_retry_after_seconds(h) ==
  IF ~h.present THEN NoRetryAfter
  ELSE IF ~h.numeric THEN NoRetryAfter
  ELSE [some |-> TRUE, ms |-> 1000 * (IF h.seconds > 0 THEN h.seconds ELSE 0)]

\* time.time() after _wait_for_rate_limit_slot has slept
wait_for_rate_limit_slot ==
  IF api_next_request_ts > now THEN api_next_request_ts ELSE now

\* a variant that multiplies by 0.95 without the floor at the base delay
relaxed_unfloored(current_delay) == (current_delay * 95) \div 100

relaxed_delay(current_delay) ==
  LET relaxed == (current_delay * 95) \div 100
  IN IF relaxed > API_DELAY_SECONDS THEN relaxed ELSE API_DELAY_SECONDS

exponential_delay(current_delay, a) == (current_delay * (17 ^ a)) \div (10 ^ a)

new_delay(current_delay, h, a) ==
  LET retry_after == get_retry_after_seconds(h)
      target_delay == IF retry_after.some THEN retry_after.ms
                      ELSE exponential_delay(current_delay, a)
      raised_to == IF target_delay > current_delay THEN target_delay
                   ELSE current_delay
  IN IF raised_to < API_MAX_DELAY_SECONDS THEN raised_to
     ELSE API_MAX_DELAY_SECONDS

\* _request_search_api is called
ApiCall ==
  /\ apc \in {"idle", "returned"}
  /\ api_requests + API_MAX_RETRIES <= MaxRequests
  /\ apc' = "attempt"
  /\ attempt' = 0
  /\ api_result' = "none"
  /\ call_requests' = 0
  /\ n429' = 0
  /\ last_resp' = "none"
  /\ UNCHANGED <<API_DELAY_SECONDS, API_MAX_DELAY_SECONDS, api_current_delay,
                 api_next_request_ts, api_rate_limit_hits, api_retry_attempts,
                 now, api_requests, prev_delay, resp_now>>
  /\ UNCHANGED <<store_vars, batch_vars, index_vars, extract_vars, query_vars, fetch_vars,
                 race_vars>>

\* what every iteration of the loop does first: wait, then issue the request
Requested(kind) ==
  /\ apc = "attempt"
  /\ now' = wait_for_rate_limit_slot
  /\ resp_now' = wait_for_rate_limit_slot
  /\ call_requests' = call_requests + 1
  /\ api_requests' = api_requests + 1
  /\ prev_delay' = api_current_delay
  /\ last_resp' = kind
  /\ UNCHANGED <<API_DELAY_SECONDS, API_MAX_DELAY_SECONDS>>
  /\ UNCHANGED <<store_vars, batch_vars, index_vars, extract_vars, query_vars, fetch_vars,
                 race_vars>>

\* a variant whose loop makes one more iteration
RetryOnceMore ==
  IF attempt < API_MAX_RETRIES
  THEN /\ attempt' = attempt + 1
       /\ UNCHANGED <<apc, api_result>>
  ELSE /\ apc' = "returned"
       /\ api_result' = "None"
       /\ UNCHANGED attempt

\* the end of an iteration that did not return data: the next iteration, or
\* None after the last one
RetryOrNone ==
  IF attempt < API_MAX_RETRIES - 1
  THEN /\ attempt' = attempt + 1
       /\ UNCHANGED <<apc, api_result>>
  ELSE /\ apc' = "returned"
       /\ api_result' = "None"
       /\ UNCHANGED attempt

\* an iteration whose response is 429
AttemptRateLimited(h) ==
  /\ Requested("429")
  /\ api_rate_limit_hits' = api_rate_limit_hits + 1
  /\ api_retry_attempts' = api_retry_attempts + 1
  /\ api_current_delay' = new_delay(api_current_delay, h, attempt)
  /\ api_next_request_ts' =
       wait_for_rate_limit_slot + new_delay(api_current_delay, h, attempt)
  /\ n429' = n429 + 1
  /\ RetryOrNone

\* an iteration whose response is 400
AttemptBadRequest ==
  /\ Requested("400")
  /\ apc' = "returned"
  /\ api_result' = "None"
  /\ n429' = 0
  /\ UNCHANGED <<api_current_delay, api_next_request_ts, api_rate_limit_hits,
                 api_retry_attempts, attempt>>

\* a variant of the error iteration that pushes the next slot forward by the
\* current delay, as a success does
AttemptErrorBacksOff(kind) ==
  /\ Requested(kind)
  /\ api_retry_attempts' = api_retry_attempts + 1
  /\ n429' = 0
  /\ RetryOrNone
  /\ api_next_request_ts' = wait_for_rate_limit_slot + api_current_delay
  /\ UNCHANGED <<api_current_delay, api_rate_limit_hits>>

\* an iteration whose request raises (network error, timeout) or whose
\* response makes raise_for_status raise (any other 4xx, 5xx)
AttemptError(kind) ==
  /\ Requested(kind)
  /\ api_retry_attempts' = api_retry_attempts + 1
  /\ n429' = 0
  /\ RetryOrNone
  /\ UNCHANGED <<api_current_delay, api_next_request_ts, api_rate_limit_hits>>

\* an iteration whose response is a success; response.json() may still raise,
\* an error that is a RequestException or not according to the library
AttemptSuccess(json_ok, json_error_caught) ==
  /\ Requested("200")
  /\ api_current_delay' = relaxed_delay(api_current_delay)
  /\ api_next_request_ts' =
       wait_for_rate_limit_slot + relaxed_delay(api_current_delay)
  /\ n429' = 0
  /\ UNCHANGED api_rate_limit_hits
  /\ IF json_ok
     THEN /\ apc' = "returned"
          /\ api_result' = "data"
          /\ UNCHANGED <<attempt, api_retry_attempts>>
     ELSE IF json_error_caught
     THEN /\ api_retry_attempts' = api_retry_attempts + 1
          /\ RetryOrNone
     ELSE /\ apc' = "returned"
          /\ api_result' = "raised"
          /\ UNCHANGED <<attempt, api_retry_attempts>>

ApiAttempt ==
  \/ \E h \in RetryAfterHeaders : AttemptRateLimited(h)
  \/ AttemptBadRequest
  \/ \E kind \in {"500", "network_error"} : AttemptError(kind)
  \/ \E json_ok \in BOOLEAN, json_error_caught \in BOOLEAN :
       AttemptSuccess(json_ok, json_error_caught)

InitApi ==
  /\ \E c \in ApiConfigs :
       /\ API_DELAY_SECONDS = c[1]
       /\ API_MAX_DELAY_SECONDS = c[2]
       /\ api_current_delay = c[1]
       /\ prev_delay = c[1]
  /\ api_next_request_ts = 0
  /\ api_rate_limit_hits = 0
  /\ api_retry_attempts = 0
  /\ now = 1000
  /\ apc = "idle"
  /\ attempt = 0
  /\ api_result = "none"
  /\ call_requests = 0
  /\ api_requests = 0
  /\ last_resp = "none"
  /\ resp_now = 0
  /\ n429 = 0
  \* no record is being extracted
  /\ record = <<>>
  /\ compact = <<>>
  /\ xpc = "idle"
  /\ out_full = <<>>
  /\ out_compact = <<>>
  \* no query is made
  /\ fin_args = <<>>
  /\ fin_result = <<>>
  \* no store, no batch and no index is in use
  /\ db = NoFile
  /\ backup = NoFile
  /\ upc = "idle"
  /\ zip_len = 0
  /\ idx = 0
  /\ batch = <<>>
  /\ total_rows = 0
  /\ total = 0
  /\ raised = FALSE
  /\ ret = FALSE
  /\ builds = 0
  /\ pre = NoFile
  /\ extracted = <<>>
  /\ bpc = "idle"
  /\ sirens = <<>>
  /\ max_workers = 1
  /\ cb_mode = "none"
  /\ grouped = <<>>
  /\ max_bilans = 10
  /\ task = [f \in {} |-> "none"]
  /\ task_result = <<>>
  /\ collected = {}
  /\ all_results = <<>>
  /\ completed_files = 0
  /\ cb_calls = <<>>
  /\ cache = <<>>
  /\ cache0 = <<>>
  /\ zip_data = <<>>
  /\ index = <<>>
  /\ ixpc = "idle"
  /\ q_siren = <<>>
  /\ q_file = NoShard
  \* no shard is being fetched
  /\ cache_file = [state |-> "absent", data |-> <<>>]
  /\ ftp_shard = <<>>
  /\ fpc = "idle"
  /\ ftp_attempt = 0
  /\ fetch_result = [some |-> FALSE, data |-> <<>>]
  /\ downloads = 0
  /\ conversions = 0
  /\ fetches = 0
  /\ prev_result = [some |-> FALSE, data |-> <<>>]
  /\ cache_at_call = [state |-> "absent", data |-> <<>>]
  /\ last_write = "none"
  /\ write_failed = FALSE
  \* no two callers share the search client
  /\ cpc = <<>>
  /\ c_attempt = <<>>
  /\ c_wake = <<>>
  /\ c_resp = <<>>
  /\ req_log = <<>>

NextApi == ApiCall \/ ApiAttempt

SpecApi == InitApi /\ [][NextApi]_vars

\* a request always ends, by a response or by an exception (timeout=10)
FairSpecApi == InitApi /\ [][NextApi]_vars /\ WF_vars(ApiAttempt)

(***************************************************************************)
(* The two encodings of a record and the metric extractors: the full       *)
(* encoding of the bulk archive (bilanSaisi.bilan.detail.pages), the       *)
(* compact encoding that extract_key_metrics_only makes of it, the lookup  *)
(* extractor extract_financial_data and the row that the store build's     *)
(* extract_bilans_from_json makes of an item.                              *)
(***************************************************************************)
MaxPages == 2

LIASSE_CODES == {"FA", "HN", "GC", "BJ", "DL", "HY"}

\* The JSON values of m1 and m2: null (or no such key), the string of an
\* integer, the string of a decimal number n.5, the empty string, a number,
\* the string of an integer with blanks around it and between its digits
\* (" 1 234 "), the string "-", a string that is no number ("abc").
\* JValue("str", n) is the string str(n) and JValue("dec", n) the string "n.5".
JValue(t, n) == [t |-> t, n |-> n]

\* An extracted amount: None, or an integer.
NoAmount == [some |-> FALSE, v |-> 0]
Amount(v) == [some |-> TRUE, v |-> v]

\* build_rne_db._parse_amount
parse_amount(value) ==
  CASE value.t = "null" -> NoAmount
    [] value.t = "num" -> Amount(value.n)
    [] value.t = "str" -> Amount(value.n)
    [] value.t = "dec" -> Amount(value.n)
    [] value.t = "empty" -> NoAmount
    [] value.t = "spaced" -> Amount(value.n)
    [] value.t = "dash" -> NoAmount
    [] value.t = "text" -> NoAmount

\* extract_financial_data's conversion of m1: a value that is falsy or blank
\* is skipped, int(value_n) is taken from a string of an integer and divided
\* by 100 above 1000000000; value_n.strip() raises on a number and int()
\* raises on a decimal string, on a string with a blank between its digits,
\* on "-" and on a string that is no number, and the bare except skips the
\* value.
int_m1(value_n) ==
  IF value_n.t = "str"
  THEN Amount(IF value_n.n > 1000000000 THEN value_n.n \div 100 ELSE value_n.n)
  ELSE NoAmount

Liasse(code, m1, m2) == [code |-> code, m1 |-> m1, m2 |-> m2]

\* A page of the full encoding: its entries under the key "liasses" and
\* under the key "lignes".
Page(liasses, lignes) == [liasses |-> liasses, lignes |-> lignes]

LiassePool ==
  {Liasse("FA", JValue("str", 1000), JValue("str", 900)),
   Liasse("FA", JValue("empty", 0), JValue("null", 0)),
   Liasse("FA", JValue("dec", 12), JValue("null", 0)),
   Liasse("FA", JValue("num", 7), JValue("num", 6)),
   Liasse("FA", JValue("str", 2000000000), JValue("null", 0)),
   Liasse("HN", JValue("str", 50), JValue("null", 0)),
   Liasse("HN", JValue("spaced", 1234), JValue("dash", 0)),
   Liasse("GC", JValue("text", 0), JValue("str", 2000000000)),
   Liasse("ZZ", JValue("str", 1), JValue("str", 2))}

PagePool ==
  {Page(<<l>>, <<>>) : l \in LiassePool}
    \cup {Page(<<>>, <<Liasse("FA", JValue("str", 1000), JValue("str", 900))>>)}

\* "005880596", "12345", "12345678X" and no siren
SirenPool ==
  {SirenA, Digits(<<1, 2, 3, 4, 5>>),
   Digits(<<1, 2, 3, 4, 5, 6, 7, 8>>) \o <<88>>, None}
DatePool == {Date(2018, 12, 31), Date(2019, 1, 1), Date(2023, 12, 31), None}

\* No metrics dict (the key is absent), and the empty dict.
NoMetrics == [c \in {} |-> Liasse(c, JValue("null", 0), JValue("null", 0))]

\* A record in the full encoding; identite tells whether
\* bilanSaisi.bilan.identite.dateClotureExercice is there, holding the
\* closing date of the record ("dateCloture"), or is "absent".
FullRecord(siren, cloture, identite, pages) ==
  [isdict |-> TRUE, keys |-> {"bilanSaisi"}, siren |-> siren,
   dateCloture |-> cloture, dateDepot |-> Date(2024, 7, 1), typeBilan |-> "C",
   identite |-> identite, pages |-> pages, metrics |-> NoMetrics]

FullRecords ==
  {FullRecord(s, d, i, pages) :
     s \in SirenPool, d \in DatePool, i \in {"dateCloture", "absent"},
     pages \in SeqUpTo(PagePool, MaxPages)}

\* The entries of all pages under one key, in order.
RECURSIVE flatten(_, _)
flatten(pages, key) ==
  IF pages = <<>> THEN <<>> ELSE pages[1][key] \o flatten(Tail(pages), key)

Last(S) == CHOOSE i \in S : \A j \in S : j <= i

\* extract_key_metrics_only, lines 105-131: the compact record of one record.
\* metrics[code] is assigned for every entry of a key code, so the last
\* entry of a code stays.
key_metrics(entreprise) ==
  LET lines == flatten(entreprise.pages, "liasses")
      at(code) == {i \in 1..Len(lines) : lines[i].code = code}
      found == {code \in LIASSE_CODES : at(code) # {}}
  IN  [isdict |-> TRUE, keys |-> {"metrics"}, siren |-> entreprise.siren,
       dateCloture |-> entreprise.dateCloture,
       dateDepot |-> entreprise.dateDepot, typeBilan |-> entreprise.typeBilan,
       identite |-> "absent", pages |-> <<>>,
       metrics |-> [code \in found |->
                      Liasse(code, lines[Last(at(code))].m1,
                             lines[Last(at(code))].m2)]]

\* extract_financial_data, lines 329-399, with the six values as a function
\* of the code: metrics[code] is assigned only for a value that converts, so
\* in the full encoding the last entry of a code that converts stays.
financial_data(bilan) ==
  IF "metrics" \in bilan.keys
  THEN [date_cloture |-> bilan.dateCloture,
        date_depot |-> bilan.dateDepot,
        metrics |-> [code \in LIASSE_CODES |->
                       IF code \in DOMAIN bilan.metrics
                       THEN int_m1(bilan.metrics[code].m1) ELSE NoAmount]]
  ELSE LET lines == flatten(bilan.pages, "liasses")
           at(code) == {i \in 1..Len(lines) :
                          lines[i].code = code /\ int_m1(lines[i].m1).some}
       IN  [date_cloture |->
              IF bilan.identite = "absent" THEN <<>> ELSE bilan.dateCloture,
            date_depot |-> bilan.dateDepot,
            metrics |-> [code \in LIASSE_CODES |->
                           IF at(code) = {} THEN NoAmount
                           ELSE int_m1(lines[Last(at(code))].m1)]]

\* extract_bilans_from_json, lines 132-211: the row of an item it keeps.
\* The "metrics" dict is read first; the pages are read, under the key
\* "lignes", when it gave no current-year value.  Neither encoding has the
\* flat columns of lines 180-189.
bilan_row(item) ==
  LET md == item.metrics
      m1_of(code) == IF code \in DOMAIN md THEN parse_amount(md[code].m1)
                     ELSE NoAmount
      m2_of(code) == IF code \in DOMAIN md THEN parse_amount(md[code].m2)
                     ELSE NoAmount
      no_metrics == \A code \in LIASSE_CODES : ~m1_of(code).some
      lines == IF no_metrics THEN flatten(item.pages, "lignes") ELSE <<>>
      at1(code) == {i \in 1..Len(lines) :
                      lines[i].code = code /\ parse_amount(lines[i].m1).some}
      at2(code) == {i \in 1..Len(lines) :
                      lines[i].code = code /\ parse_amount(lines[i].m2).some}
  IN  [siren |-> item.siren, date_cloture |-> item.dateCloture,
       date_depot |-> item.dateDepot, type_bilan |-> item.typeBilan,
       metrics |-> [code \in LIASSE_CODES |->
                      IF at1(code) # {}
                      THEN parse_amount(lines[Last(at1(code))].m1)
                      ELSE m1_of(code)],
       metrics_prev |-> [code \in LIASSE_CODES |->
                           IF at2(code) # {}
                           THEN parse_amount(lines[Last(at2(code))].m2)
                           ELSE m2_of(code)]]

\* extract_bilans_from_json with the whole row of each item it keeps
bilan_rows(items) ==
  LET kept == SelectSeq(items, KeepItem)
  IN  [i \in 1..Len(kept) |-> bilan_row(kept[i])]

\* download_json_from_ftp: the record goes through extract_key_metrics_only
Compact ==
  /\ xpc = "drawn"
  /\ compact' = key_metrics(record)
  /\ xpc' = "compacted"
  /\ UNCHANGED <<record, out_full, out_compact>>
  /\ UNCHANGED <<store_vars, batch_vars, index_vars, api_vars, query_vars, fetch_vars,
                 race_vars>>

\* extract_key_metrics_only applied to the compact record it made
ConvertAgain ==
  /\ xpc = "compacted"
  /\ out_full' = compact
  /\ out_compact' = key_metrics(compact)
  /\ xpc' = "converted_twice"
  /\ UNCHANGED <<record, compact>>
  /\ UNCHANGED <<store_vars, batch_vars, index_vars, api_vars, query_vars, fetch_vars,
                 race_vars>>

\* extract_financial_data on each encoding
ExtractLookup ==
  /\ xpc = "compacted"
  /\ out_full' = financial_data(record)
  /\ out_compact' = financial_data(compact)
  /\ xpc' = "lookup"
  /\ UNCHANGED <<record, compact>>
  /\ UNCHANGED <<store_vars, batch_vars, index_vars, api_vars, query_vars, fetch_vars,
                 race_vars>>

\* extract_bilans_from_json on each encoding
ExtractBuild ==
  /\ xpc = "compacted"
  /\ out_full' = bilan_rows(<<record>>)
  /\ out_compact' = bilan_rows(<<compact>>)
  /\ xpc' = "build"
  /\ UNCHANGED <<record, compact>>
  /\ UNCHANGED <<store_vars, batch_vars, index_vars, api_vars, query_vars, fetch_vars,
                 race_vars>>

InitExtract ==
  /\ record \in FullRecords
  /\ compact = <<>>
  /\ xpc = "drawn"
  /\ out_full = <<>>
  /\ out_compact = <<>>
  \* no query is made
  /\ fin_args = <<>>
  /\ fin_result = <<>>
  \* the store is not being updated
  /\ db = NoFile
  /\ backup = NoFile
  /\ upc = "idle"
  /\ zip_len = 0
  /\ idx = 0
  /\ batch = <<>>
  /\ total_rows = 0
  /\ total = 0
  /\ raised = FALSE
  /\ ret = FALSE
  /\ builds = 0
  /\ pre = NoFile
  /\ extracted = <<>>
  \* the batch enrichment is not running
  /\ bpc = "idle"
  /\ sirens = <<>>
  /\ max_workers = 1
  /\ cb_mode = "none"
  /\ max_bilans = 10
  /\ grouped = <<>>
  /\ task = [f \in {} |-> "none"]
  /\ task_result = <<>>
  /\ collected = {}
  /\ all_results = <<>>
  /\ completed_files = 0
  /\ cb_calls = <<>>
  /\ cache = <<>>
  /\ cache0 = <<>>
  \* no index is in use
  /\ zip_data = <<>>
  /\ index = <<>>
  /\ ixpc = "idle"
  /\ q_siren = <<>>
  /\ q_file = NoShard
  \* no search request is being made
  /\ API_DELAY_SECONDS = 800
  /\ API_MAX_DELAY_SECONDS = 8000
  /\ api_current_delay = 800
  /\ api_next_request_ts = 0
  /\ api_rate_limit_hits = 0
  /\ api_retry_attempts = 0
  /\ now = 1000
  /\ apc = "idle"
  /\ attempt = 0
  /\ api_result = "none"
  /\ call_requests = 0
  /\ api_requests = 0
  /\ last_resp = "none"
  /\ prev_delay = 800
  /\ resp_now = 0
  /\ n429 = 0
  \* no shard is being fetched
  /\ cache_file = [state |-> "absent", data |-> <<>>]
  /\ ftp_shard = <<>>
  /\ fpc = "idle"
  /\ ftp_attempt = 0
  /\ fetch_result = [some |-> FALSE, data |-> <<>>]
  /\ downloads = 0
  /\ conversions = 0
  /\ fetches = 0
  /\ prev_result = [some |-> FALSE, data |-> <<>>]
  /\ cache_at_call = [state |-> "absent", data |-> <<>>]
  /\ last_write = "none"
  /\ write_failed = FALSE
  \* no two callers share the search client
  /\ cpc = <<>>
  /\ c_attempt = <<>>
  /\ c_wake = <<>>
  /\ c_resp = <<>>
  /\ req_log = <<>>

NextExtract == Compact \/ ConvertAgain \/ ExtractLookup \/ ExtractBuild

SpecExtract == InitExtract /\ [][NextExtract]_vars

(***************************************************************************)
(* get_finances on a store: the store is drawn from the stores a build can *)
(* leave, the call is applied to it.                                       *)
(***************************************************************************)
MaxRows == 3

RowPool ==
  {[siren |-> SirenA, date_cloture |-> Date(2020, 12, 31)],
   [siren |-> SirenA, date_cloture |-> Date(2021, 12, 31)],
   [siren |-> SirenA, date_cloture |-> Date(2022, 12, 31)],
   [siren |-> SirenB, date_cloture |-> Date(2020, 6, 30)]}

QueryStores == {NoFile} \cup {File(rows) : rows \in SeqUpTo(RowPool, MaxRows)}

\* get_finances(siren, years) is called
GetFinances(siren, years) ==
  /\ fin_args = <<>>
  /\ fin_args' = [siren |-> siren, years |-> years]
  /\ fin_result' = get_finances(db, siren, years)
  /\ UNCHANGED <<store_vars, batch_vars, index_vars, api_vars, extract_vars, fetch_vars,
                 race_vars>>

InitQuery ==
  /\ db \in QueryStores
  /\ fin_args = <<>>
  /\ fin_result = <<>>
  \* the store is not being updated
  /\ backup = NoFile
  /\ upc = "idle"
  /\ zip_len = 0
  /\ idx = 0
  /\ batch = <<>>
  /\ total_rows = 0
  /\ total = 0
  /\ raised = FALSE
  /\ ret = FALSE
  /\ builds = 0
  /\ pre = NoFile
  /\ extracted = <<>>
  \* the batch enrichment is not running
  /\ bpc = "idle"
  /\ sirens = <<>>
  /\ max_workers = 1
  /\ cb_mode = "none"
  /\ max_bilans = 10
  /\ grouped = <<>>
  /\ task = [f \in {} |-> "none"]
  /\ task_result = <<>>
  /\ collected = {}
  /\ all_results = <<>>
  /\ completed_files = 0
  /\ cb_calls = <<>>
  /\ cache = <<>>
  /\ cache0 = <<>>
  \* no index is in use
  /\ zip_data = <<>>
  /\ index = <<>>
  /\ ixpc = "idle"
  /\ q_siren = <<>>
  /\ q_file = NoShard
  \* no search request is being made
  /\ API_DELAY_SECONDS = 800
  /\ API_MAX_DELAY_SECONDS = 8000
  /\ api_current_delay = 800
  /\ api_next_request_ts = 0
  /\ api_rate_limit_hits = 0
  /\ api_retry_attempts = 0
  /\ now = 1000
  /\ apc = "idle"
  /\ attempt = 0
  /\ api_result = "none"
  /\ call_requests = 0
  /\ api_requests = 0
  /\ last_resp = "none"
  /\ prev_delay = 800
  /\ resp_now = 0
  /\ n429 = 0
  \* no record is being extracted
  /\ record = <<>>
  /\ compact = <<>>
  /\ xpc = "idle"
  /\ out_full = <<>>
  /\ out_compact = <<>>
  \* no shard is being fetched
  /\ cache_file = [state |-> "absent", data |-> <<>>]
  /\ ftp_shard = <<>>
  /\ fpc = "idle"
  /\ ftp_attempt = 0
  /\ fetch_result = [some |-> FALSE, data |-> <<>>]
  /\ downloads = 0
  /\ conversions = 0
  /\ fetches = 0
  /\ prev_result = [some |-> FALSE, data |-> <<>>]
  /\ cache_at_call = [state |-> "absent", data |-> <<>>]
  /\ last_write = "none"
  /\ write_failed = FALSE
  \* no two callers share the search client
  /\ cpc = <<>>
  /\ c_attempt = <<>>
  /\ c_wake = <<>>
  /\ c_resp = <<>>
  /\ req_log = <<>>

NextQuery ==
  \E siren \in QuerySirens, years \in QueryYears \cup {0, 2} :
    GetFinances(siren, years)

SpecQuery == InitQuery /\ [][NextQuery]_vars

(***************************************************************************)
(* The fetch of one shard, download_json_from_ftp(filename, use_cache=True)*)
(* as every caller calls it: the cache file is read and, when it holds the *)
(* full encoding, converted and rewritten; else the ZIP is downloaded, at  *)
(* most FTP_MAX_RETRIES times, the shard converted and saved.  A write of  *)
(* the cache file can fail (the disk is full or the directory read-only).  *)
(***************************************************************************)
FTP_MAX_RETRIES == 2
MaxFetches == 3

NoData == [some |-> FALSE, data |-> <<>>]
Data(d) == [some |-> TRUE, data |-> d]

\* The cache file: missing, bytes that json.load rejects, or a JSON array.
NoCacheFile == [state |-> "absent", data |-> <<>>]
CorruptCacheFile == [state |-> "corrupt", data |-> <<>>]
CacheFile(d) == [state |-> "json", data |-> d]

\* The shards of the ZIP: no record, one record, two records of which the
\* second has no entry of a key code.
FetchShards ==
  LET fa == Page(<<Liasse("FA", JValue("str", 1000), JValue("str", 900))>>, <<>>)
      hn == Page(<<Liasse("HN", JValue("str", 50), JValue("null", 0))>>, <<>>)
      zz == Page(<<Liasse("ZZ", JValue("str", 1), JValue("str", 2))>>, <<>>)
  IN  { <<>>,
        <<FullRecord(SirenA, Date(2023, 12, 31), "dateCloture", <<fa, hn>>)>>,
        <<FullRecord(SirenA, Date(2022, 12, 31), "dateCloture", <<fa>>),
          FullRecord(SirenB, Date(2023, 12, 31), "dateCloture", <<zz>>)>> }

\* extract_key_metrics_only on the records of a shard
key_metrics_all(data) == [i \in 1..Len(data) |-> key_metrics(data[i])]

\* a variant of the test that never finds the full encoding
never_legacy(data) == FALSE

\* the test of lines 226-231: the first record has the key "bilanSaisi"
is_legacy(data) == data # <<>> /\ "bilanSaisi" \in data[1].keys

\* open(cache_path, 'w') and json.dump: the file written, open() raising
\* (the file stays as it was), or json.dump raising after open() has
\* truncated the file
WriteOutcomes == {"ok", "open_fails", "partial"}

write_cache(file, data, w) ==
  CASE w = "ok" -> CacheFile(data)
    [] w = "open_fails" -> file
    [] w = "partial" -> CorruptCacheFile

\* download_json_from_ftp is called: lines 216-249, up to the return of the
\* cache branch or to the download loop
FetchCall(w) ==
  /\ fpc \in {"idle", "returned"}
  /\ fetches < MaxFetches
  /\ fetches' = fetches + 1
  /\ cache_at_call' = cache_file
  /\ prev_result' = IF fetch_result.some THEN fetch_result ELSE prev_result
  /\ downloads' = 0
  /\ ftp_attempt' = 0
  /\ IF cache_file.state = "json"
     THEN IF is_legacy(cache_file.data)
          THEN /\ conversions' = 1
               /\ last_write' = w
               /\ write_failed' = (write_failed \/ w # "ok")
               /\ cache_file' =
                    write_cache(cache_file, key_metrics_all(cache_file.data), w)
               /\ IF w = "ok"
                  THEN /\ fpc' = "returned"
                       /\ fetch_result' = Data(key_metrics_all(cache_file.data))
                  ELSE \* except Exception: on to the download
                       /\ fpc' = "download"
                       /\ fetch_result' = NoData
          ELSE /\ conversions' = 0
               /\ last_write' = "none"
               /\ fpc' = "returned"
               /\ fetch_result' = Data(cache_file.data)
               /\ UNCHANGED <<cache_file, write_failed>>
     ELSE \* no cache file, or json.load raises: on to the download
          /\ conversions' = 0
          /\ last_write' = "none"
          /\ fpc' = "download"
          /\ fetch_result' = NoData
          /\ UNCHANGED <<cache_file, write_failed>>
  /\ UNCHANGED ftp_shard
  /\ UNCHANGED <<store_vars, batch_vars, index_vars, api_vars, extract_vars,
                 query_vars, race_vars>>

\* a variant whose loop makes one more iteration
FtpRetryOnceMore ==
  IF ftp_attempt < FTP_MAX_RETRIES
  THEN /\ ftp_attempt' = ftp_attempt + 1
       /\ UNCHANGED <<fpc, fetch_result>>
  ELSE /\ fpc' = "returned"
       /\ fetch_result' = NoData
       /\ UNCHANGED ftp_attempt

\* the except branch of the download loop: the next iteration, or None after
\* the last one
FtpRetryOrNone ==
  IF ftp_attempt < FTP_MAX_RETRIES - 1
  THEN /\ ftp_attempt' = ftp_attempt + 1
       /\ UNCHANGED <<fpc, fetch_result>>
  ELSE /\ fpc' = "returned"
       /\ fetch_result' = NoData
       /\ UNCHANGED ftp_attempt

\* one iteration of the download loop: the download or the extraction
\* raises ("error"), the ZIP has no such entry ("not_in_zip"), or the shard
\* is read, converted, saved and returned ("ok")
FetchAttempt(outcome, w) ==
  /\ fpc = "download"
  /\ downloads' = downloads + 1
  /\ CASE outcome = "ok" ->
            /\ conversions' = conversions + 1
            /\ cache_file' = write_cache(cache_file, key_metrics_all(ftp_shard), w)
            /\ last_write' = w
            /\ write_failed' = (write_failed \/ w # "ok")
            /\ fpc' = "returned"
            /\ fetch_result' = Data(key_metrics_all(ftp_shard))
            /\ UNCHANGED ftp_attempt
       [] outcome = "not_in_zip" ->
            /\ fpc' = "returned"
            /\ fetch_result' = NoData
            /\ UNCHANGED <<ftp_attempt, conversions, cache_file, last_write,
                           write_failed>>
       [] outcome = "error" ->
            /\ FtpRetryOrNone
            /\ UNCHANGED <<conversions, cache_file, last_write, write_failed>>
  /\ UNCHANGED <<ftp_shard, fetches, prev_result, cache_at_call>>
  /\ UNCHANGED <<store_vars, batch_vars, index_vars, api_vars, extract_vars,
                 query_vars, race_vars>>

Download == \E outcome \in {"ok", "not_in_zip", "error"}, w \in WriteOutcomes :
              FetchAttempt(outcome, w)

InitFetch ==
  /\ ftp_shard \in FetchShards
  /\ cache_file \in {NoCacheFile, CorruptCacheFile}
                      \cup {CacheFile(d) : d \in FetchShards}
                      \cup {CacheFile(key_metrics_all(d)) : d \in FetchShards}
  /\ fpc = "idle"
  /\ ftp_attempt = 0
  /\ fetch_result = NoData
  /\ downloads = 0
  /\ conversions = 0
  /\ fetches = 0
  /\ prev_result = NoData
  /\ cache_at_call = NoCacheFile
  /\ last_write = "none"
  /\ write_failed = FALSE
  \* the store holds no rows
  /\ db = NoFile
  \* no query is made
  /\ fin_args = <<>>
  /\ fin_result = <<>>
  \* the store is not being updated
  /\ backup = NoFile
  /\ upc = "idle"
  /\ zip_len = 0
  /\ idx = 0
  /\ batch = <<>>
  /\ total_rows = 0
  /\ total = 0
  /\ raised = FALSE
  /\ ret = FALSE
  /\ builds = 0
  /\ pre = NoFile
  /\ extracted = <<>>
  \* the batch enrichment is not running
  /\ bpc = "idle"
  /\ sirens = <<>>
  /\ max_workers = 1
  /\ cb_mode = "none"
  /\ max_bilans = 10
  /\ grouped = <<>>
  /\ task = [f \in {} |-> "none"]
  /\ task_result = <<>>
  /\ collected = {}
  /\ all_results = <<>>
  /\ completed_files = 0
  /\ cb_calls = <<>>
  /\ cache = <<>>
  /\ cache0 = <<>>
  \* no index is in use
  /\ zip_data = <<>>
  /\ index = <<>>
  /\ ixpc = "idle"
  /\ q_siren = <<>>
  /\ q_file = NoShard
  \* no search request is being made
  /\ API_DELAY_SECONDS = 800
  /\ API_MAX_DELAY_SECONDS = 8000
  /\ api_current_delay = 800
  /\ api_next_request_ts = 0
  /\ api_rate_limit_hits = 0
  /\ api_retry_attempts = 0
  /\ now = 1000
  /\ apc = "idle"
  /\ attempt = 0
  /\ api_result = "none"
  /\ call_requests = 0
  /\ api_requests = 0
  /\ last_resp = "none"
  /\ prev_delay = 800
  /\ resp_now = 0
  /\ n429 = 0
  \* no record is being extracted
  /\ record = <<>>
  /\ compact = <<>>
  /\ xpc = "idle"
  /\ out_full = <<>>
  /\ out_compact = <<>>
  \* no two callers share the search client
  /\ cpc = <<>>
  /\ c_attempt = <<>>
  /\ c_wake = <<>>
  /\ c_resp = <<>>
  /\ req_log = <<>>

NextFetch ==
  \/ \E w \in WriteOutcomes : FetchCall(w)
  \/ Download

SpecFetch == InitFetch /\ [][NextFetch]_vars

\* a download attempt always ends: by data, or by an exception (timeout=60)
FairSpecFetch == InitFetch /\ [][NextFetch]_vars /\ WF_vars(Download)

(***************************************************************************)
(* Two callers of _request_search_api that share the rate-limit state.     *)
(* The code takes no lock: a caller's wait, its request and its update of  *)
(* the state are three steps that the other caller's steps can come        *)
(* between.  Every response is a success or a 429, the two responses that  *)
(* update the state; times are as in the single-caller model.              *)
(***************************************************************************)
MaxRaceRequests == 6

Callers == {"A", "B"}

RaceResponses ==
  {[kind |-> "200", h |-> [present |-> FALSE, numeric |-> FALSE, seconds |-> 0]],
   [kind |-> "429", h |-> [present |-> FALSE, numeric |-> FALSE, seconds |-> 0]],
   [kind |-> "429", h |-> [present |-> TRUE, numeric |-> TRUE, seconds |-> 2]]}

\* a caller calls _request_search_api
RaceCall(c) ==
  /\ cpc[c] \in {"idle", "returned"}
  /\ LET calling == {d \in Callers : cpc[d] \notin {"idle", "returned"}}
     IN  Len(req_log) + API_MAX_RETRIES * (1 + Cardinality(calling))
           <= MaxRaceRequests
  /\ cpc' = [cpc EXCEPT ![c] = "attempt"]
  /\ c_attempt' = [c_attempt EXCEPT ![c] = 0]
  /\ UNCHANGED <<c_wake, c_resp, req_log>>
  /\ UNCHANGED <<store_vars, batch_vars, index_vars, api_vars, extract_vars,
                 query_vars, fetch_vars>>

\* _wait_for_rate_limit_slot: the caller reads api_next_request_ts and the
\* clock, and sleeps until the later of the two
RaceWait(c) ==
  /\ cpc[c] = "attempt"
  /\ c_wake' = [c_wake EXCEPT ![c] = wait_for_rate_limit_slot]
  /\ cpc' = [cpc EXCEPT ![c] = "waited"]
  /\ UNCHANGED <<c_attempt, c_resp, req_log>>
  /\ UNCHANGED <<store_vars, batch_vars, index_vars, api_vars, extract_vars,
                 query_vars, fetch_vars>>

\* API_SESSION.get: the caller's sleep is over, it issues its request and
\* receives the response
RaceRequest(c, resp) ==
  /\ cpc[c] = "waited"
  /\ now' = IF c_wake[c] > now THEN c_wake[c] ELSE now
  /\ req_log' = Append(req_log, now')
  /\ c_resp' = [c_resp EXCEPT ![c] = resp]
  /\ cpc' = [cpc EXCEPT ![c] = "requested"]
  /\ UNCHANGED <<c_attempt, c_wake>>
  /\ UNCHANGED <<API_DELAY_SECONDS, API_MAX_DELAY_SECONDS, api_current_delay,
                 api_next_request_ts, api_rate_limit_hits, api_retry_attempts,
                 apc, attempt, api_result, call_requests, api_requests,
                 last_resp, prev_delay, resp_now, n429>>
  /\ UNCHANGED <<store_vars, batch_vars, index_vars, extract_vars, query_vars,
                 fetch_vars>>

\* _on_api_rate_limited or _on_api_success, and the end of the iteration
RaceHandle(c) ==
  /\ cpc[c] = "requested"
  /\ IF c_resp[c].kind = "429"
     THEN /\ api_rate_limit_hits' = api_rate_limit_hits + 1
          /\ api_retry_attempts' = api_retry_attempts + 1
          /\ api_current_delay' =
               new_delay(api_current_delay, c_resp[c].h, c_attempt[c])
          /\ api_next_request_ts' =
               now + new_delay(api_current_delay, c_resp[c].h, c_attempt[c])
          /\ IF c_attempt[c] < API_MAX_RETRIES - 1
             THEN /\ c_attempt' = [c_attempt EXCEPT ![c] = c_attempt[c] + 1]
                  /\ cpc' = [cpc EXCEPT ![c] = "attempt"]
             ELSE /\ cpc' = [cpc EXCEPT ![c] = "returned"]
                  /\ UNCHANGED c_attempt
     ELSE /\ api_current_delay' = relaxed_delay(api_current_delay)
          /\ api_next_request_ts' = now + relaxed_delay(api_current_delay)
          /\ cpc' = [cpc EXCEPT ![c] = "returned"]
          /\ UNCHANGED <<c_attempt, api_rate_limit_hits, api_retry_attempts>>
  /\ UNCHANGED <<c_wake, c_resp, req_log>>
  /\ UNCHANGED <<API_DELAY_SECONDS, API_MAX_DELAY_SECONDS, now, apc, attempt,
                 api_result, call_requests, api_requests, last_resp, prev_delay,
                 resp_now, n429>>
  /\ UNCHANGED <<store_vars, batch_vars, index_vars, extract_vars, query_vars,
                 fetch_vars>>

InitRace ==
  /\ cpc = [c \in Callers |-> "idle"]
  /\ c_attempt = [c \in Callers |-> 0]
  /\ c_wake = [c \in Callers |-> 0]
  /\ c_resp = [c \in Callers |-> [kind |-> "none", h |-> <<>>]]
  /\ req_log = <<>>
  /\ \E c \in {k \in ApiConfigs : k[1] <= k[2]} :
       /\ API_DELAY_SECONDS = c[1]
       /\ API_MAX_DELAY_SECONDS = c[2]
       /\ api_current_delay = c[1]
       /\ prev_delay = c[1]
  /\ api_next_request_ts = 0
  /\ api_rate_limit_hits = 0
  /\ api_retry_attempts = 0
  /\ now = 1000
  /\ apc = "idle"
  /\ attempt = 0
  /\ api_result = "none"
  /\ call_requests = 0
  /\ api_requests = 0
  /\ last_resp = "none"
  /\ resp_now = 0
  /\ n429 = 0
  \* no record is being extracted
  /\ record = <<>>
  /\ compact = <<>>
  /\ xpc = "idle"
  /\ out_full = <<>>
  /\ out_compact = <<>>
  \* no query is made
  /\ fin_args = <<>>
  /\ fin_result = <<>>
  \* no store, no batch and no index is in use
  /\ db = NoFile
  /\ backup = NoFile
  /\ upc = "idle"
  /\ zip_len = 0
  /\ idx = 0
  /\ batch = <<>>
  /\ total_rows = 0
  /\ total = 0
  /\ raised = FALSE
  /\ ret = FALSE
  /\ builds = 0
  /\ pre = NoFile
  /\ extracted = <<>>
  /\ bpc = "idle"
  /\ sirens = <<>>
  /\ max_workers = 1
  /\ cb_mode = "none"
  /\ grouped = <<>>
  /\ max_bilans = 10
  /\ task = [f \in {} |-> "none"]
  /\ task_result = <<>>
  /\ collected = {}
  /\ all_results = <<>>
  /\ completed_files = 0
  /\ cb_calls = <<>>
  /\ cache = <<>>
  /\ cache0 = <<>>
  /\ zip_data = <<>>
  /\ index = <<>>
  /\ ixpc = "idle"
  /\ q_siren = <<>>
  /\ q_file = NoShard
  \* no shard is being fetched
  /\ cache_file = [state |-> "absent", data |-> <<>>]
  /\ ftp_shard = <<>>
  /\ fpc = "idle"
  /\ ftp_attempt = 0
  /\ fetch_result = [some |-> FALSE, data |-> <<>>]
  /\ downloads = 0
  /\ conversions = 0
  /\ fetches = 0
  /\ prev_result = [some |-> FALSE, data |-> <<>>]
  /\ cache_at_call = [state |-> "absent", data |-> <<>>]
  /\ last_write = "none"
  /\ write_failed = FALSE

NextRace ==
  \E c \in Callers :
    \/ RaceCall(c)
    \/ RaceWait(c)
    \/ \E resp \in RaceResponses : RaceRequest(c, resp)
    \/ RaceHandle(c)

SpecRace == InitRace /\ [][NextRace]_vars

----------------------------------------------------------------------------
\* Properties of the store (SpecStore)

\* C1: when the build run by update_db imports nothing or raises, update_db
\* returns False and the store file holds the rows it held before the call.
C1_FailedUpdateKeepsStore ==
  (upc = "done" /\ (raised \/ total = 0)) =>
    (ret = FALSE /\ db.rows = pre.rows)

\* C2: while update_db rebuilds the store, every get_finances call returns
\* what it would return on the store as it was before the rebuild.
C2_ReadersSeePreRebuildStore ==
  (upc \in {"building", "built"} /\ pre.exists) =>
    \A s \in QuerySirens, y \in QueryYears :
      get_finances(db, s, y) = get_finances(pre, s, y)

\* C3: after a successful update_db on an existing store, the store holds
\* exactly the rows that build extracted, as many as the build returned.
C3_RebuildSupersedes ==
  (upc = "done" /\ ret = TRUE /\ pre.exists) =>
    (db.rows = extracted /\ Len(db.rows) = total)

\* C17: a build into a fresh file that returns has stored one row per valid
\* record of the shards it could read, duplicates of (siren, date_cloture)
\* included, and returns the number of stored rows.
C17_FreshBuildStoresEveryValidRecord ==
  (upc = "built" /\ ~raised /\ ~pre.exists) =>
    /\ db.rows = extracted
    /\ Len(db.rows) = total

\* Three valid records, two of them with the same (siren, date_cloture), were
\* stored by a commit at the batch boundary and one after the loop.
C17_Witness ==
  /\ upc = "built"
  /\ ~raised
  /\ ~pre.exists
  /\ total = batch_size + 1
  /\ Len(db.rows) = batch_size + 1
  /\ \E i, j \in 1..Len(db.rows) : i < j /\ db.rows[i] = db.rows[j]

----------------------------------------------------------------------------
\* Properties of the batch enrichment (SpecBatch, FairSpecBatch)

\* The shard a requested identifier is looked up in.
ShardOf(siren) == find_file_for_siren(siren, ranges)

\* The shards the requested identifiers map to.
RequestedShards == {ShardOf(s) : s \in Range(sirens)} \ {NoShard}

\* The task of shard f has ended.
Ended(f) == task[f] \in {"returned", "raised"}

\* C4: every requested identifier that maps to no shard has an entry marked
\* not found in the returned map, and no task is submitted for it.
C4_UnmappedIdsReportedNotFound ==
  bpc = "done" =>
    \A s \in Range(sirens) :
      ShardOf(s) = NoShard =>
        /\ s \in DOMAIN all_results
        /\ ~all_results[s].success
        /\ \A i \in 1..Len(grouped) : s \notin Range(grouped[i].sirens)

\* C5: every requested identifier whose shard task failed, by a fetch error
\* or by raising, has a failure record in the returned map.
C5_FailedShardIdsHaveFailureRecord ==
  bpc = "done" =>
    \A f \in GroupFiles(grouped) :
      \A s \in Range(FileSirens(grouped, f)) :
        (task[f] = "raised" \/ task_result[f][s] = DownloadFailure) =>
          (s \in DOMAIN all_results /\ ~all_results[s].success)

\* The bilans of a result come from the records that the shard ShardOf(s)
\* holds for the identifier s.
FromOwnShard(s, result) ==
  LET data == FtpData(ShardOf(s))
      own  == {j \in 1..Len(data) : data[j].siren = zfill(s, SirenLen)}
      held == {extract_financial_data(data[j]) : j \in own}
  IN  \A i \in 1..Len(result.bilans) : result.bilans[i] \in held

\* C6, as stated: one task per distinct shard of the requested identifiers,
\* and each result is built from the records of the identifier's shard and
\* carries the requested identifier as its siren.
C6_OneTaskPerShardSirenAsRequested ==
  bpc # "idle" =>
    /\ Len(grouped) = Cardinality(RequestedShards)
    /\ GroupFiles(grouped) = RequestedShards
    /\ \A s \in DOMAIN all_results :
         all_results[s].success =>
           (FromOwnShard(s, all_results[s]) /\ all_results[s].siren = s)

\* C6, amended: the result's siren is the requested identifier padded with
\* zeros to 9 digits.
C6_OneTaskPerShardSirenPadded ==
  bpc # "idle" =>
    /\ Len(grouped) = Cardinality(RequestedShards)
    /\ GroupFiles(grouped) = RequestedShards
    /\ \A s \in DOMAIN all_results :
         all_results[s].success =>
           /\ FromOwnShard(s, all_results[s])
           /\ all_results[s].siren = zfill(s, SirenLen)

\* Two identifiers of one shard and one of another were requested, two tasks
\* were submitted, and the three results are in.
C6_Witness ==
  /\ bpc = "done"
  /\ Len(sirens) = 3
  /\ Cardinality(Range(sirens)) = 3
  /\ Len(grouped) = 2
  /\ \A s \in Range(sirens) : s \in DOMAIN all_results /\ all_results[s].success

\* C7: the shard tasks started and not yet ended are never more than
\* max_workers.
C7_RunningAtMostMaxWorkers ==
  bpc # "idle" => Cardinality(Running) <= max_workers

\* More shards than workers: every worker is busy and a task waits.
C7_Witness ==
  /\ bpc = "running"
  /\ Len(grouped) > max_workers
  /\ Cardinality(Running) = max_workers
  /\ \E f \in Files : task[f] = "pending"

\* C8: the call returns, and when it does every submitted task has ended and
\* the results of every task that returned are in the merged map, whatever
\* happened to the other tasks.
C8_OtherShardsComplete ==
  /\ (bpc = "running") ~> (bpc = "done")
  /\ [](bpc = "done" =>
          \A f \in GroupFiles(grouped) :
            /\ Ended(f)
            /\ task[f] = "returned" =>
                 \A s \in Range(FileSirens(grouped, f)) :
                   s \in DOMAIN all_results /\ all_results[s] = task_result[f][s])

\* One task raised, another failed to fetch, a third returned results, and
\* the results of the last two are in the returned map.
C8_Witness ==
  /\ bpc = "done"
  /\ \E f \in GroupFiles(grouped) : task[f] = "raised"
  /\ \E f \in GroupFiles(grouped) :
       /\ task[f] = "returned"
       /\ \E s \in DOMAIN task_result[f] :
            s \in DOMAIN all_results /\ all_results[s].success

\* C9: the progress callback is called once per shard, failed or not, with
\* completed = 1, 2, ..., N and total = N.
C9_CallbackOncePerShard ==
  (bpc = "done" /\ cb_mode = "ok") =>
    /\ Len(cb_calls) = Len(grouped)
    /\ \A i \in 1..Len(cb_calls) :
         cb_calls[i][1] = i /\ cb_calls[i][2] = Len(grouped)

\* C10: in limited-space mode the cache entry of a shard is gone once its
\* task has ended, and from an empty cache the cached shards are never more
\* than max_workers.
C10_ShardEvictedAfterTask ==
  (bpc # "idle" /\ LIMITED_SPACE_MODE) =>
    /\ \A f \in Files : Ended(f) => ~cache[f].exists
    /\ (\A f \in Files : ~cache0[f].exists) =>
         Cardinality({f \in Files : cache[f].exists}) <= max_workers

----------------------------------------------------------------------------
\* Properties of the index and the lookup (SpecIndex)

\* The index entry e holds the 9-digit identifier siren in its range.
InRange(e, siren) == StrLeq(e.siren_min, siren) /\ StrLeq(siren, e.siren_max)

\* A linear scan over all entries: the file of the first entry whose range
\* holds the identifier.
LinearScan(siren, rs) ==
  LET hits == {i \in 1..Len(rs) : InRange(rs[i], zfill(siren, SirenLen))}
  IN  IF hits = {} THEN NoShard
      ELSE rs[CHOOSE i \in hits : \A j \in hits : i <= j].file

\* C11: on every index the build produces, a 9-digit identifier within the
\* range of an entry is found in the file of an entry that holds it, and the
\* binary search answers as a linear scan over the entries does.
C11_LookupFindsRangeEntry ==
  (ixpc = "looked" /\ Len(q_siren) = SirenLen) =>
    /\ (\E i \in 1..Len(index) : InRange(index[i], q_siren)) =>
         (\E i \in 1..Len(index) :
            InRange(index[i], q_siren) /\ q_file = index[i].file)
    /\ q_file = LinearScan(q_siren, index)

\* C12: an identifier that no entry's range holds is not found.
C12_OutsideRangesNotFound ==
  (ixpc = "looked" /\
     \A i \in 1..Len(index) : ~InRange(index[i], zfill(q_siren, SirenLen))) =>
    q_file = NoShard

\* An identifier in the gap between the ranges of two entries was looked up
\* and not found.
C12_Witness ==
  /\ ixpc = "looked"
  /\ q_file = NoShard
  /\ \A i \in 1..Len(index) : ~InRange(index[i], zfill(q_siren, SirenLen))
  /\ \E i, j \in 1..Len(index) :
       /\ StrLess(index[i].siren_max, zfill(q_siren, SirenLen))
       /\ StrLess(zfill(q_siren, SirenLen), index[j].siren_min)


(***************************************************************************)
(* Properties of the rate-limited search client                            *)
(***************************************************************************)

\* C13: within one call of _request_search_api, a 429 response received
\* while api_current_delay is below API_MAX_DELAY_SECONDS strictly increases
\* api_current_delay, and no 429 response leaves it above that maximum.
C13_RateLimitedRaisesDelay ==
  (last_resp = "429" /\ API_DELAY_SECONDS <= API_MAX_DELAY_SECONDS) =>
    /\ api_current_delay <= API_MAX_DELAY_SECONDS
    /\ prev_delay < API_MAX_DELAY_SECONDS => api_current_delay > prev_delay


\* C14: when API_DELAY_SECONDS <= API_MAX_DELAY_SECONDS, after any sequence
\* of successes and 429 responses api_current_delay stays between the two;
\* a success multiplies it by 0.95 with a floor at API_DELAY_SECONDS, so it
\* strictly decreases when it was above the base, and sets
\* api_next_request_ts to the time of the success plus the new delay.
C14_DelayWithinBounds ==
  API_DELAY_SECONDS <= API_MAX_DELAY_SECONDS =>
    /\ API_DELAY_SECONDS <= api_current_delay
    /\ api_current_delay <= API_MAX_DELAY_SECONDS
    /\ last_resp = "200" =>
         /\ api_current_delay =
              (IF prev_delay * 95 >= API_DELAY_SECONDS * 100
               THEN (prev_delay * 95) \div 100 ELSE API_DELAY_SECONDS)
         /\ prev_delay > API_DELAY_SECONDS => api_current_delay < prev_delay
         /\ api_next_request_ts = resp_now + api_current_delay

C14_Witness ==
  /\ API_DELAY_SECONDS <= API_MAX_DELAY_SECONDS
  /\ last_resp = "200"
  /\ api_rate_limit_hits > 0
  /\ prev_delay > API_DELAY_SECONDS
  /\ api_current_delay < prev_delay


\* C15: every call of _request_search_api ends after at most API_MAX_RETRIES
\* HTTP requests, whatever the responses and errors; a call that received
\* only 429 responses returns None after the last attempt.
C15_CallEndsWithinMaxRetries ==
  /\ [](call_requests <= API_MAX_RETRIES)
  /\ []((apc = "returned" /\ n429 > 0 /\ n429 = call_requests) =>
          (call_requests = API_MAX_RETRIES /\ api_result = "None"))
  /\ (apc = "attempt") ~> (apc = "returned")

C15_Witness ==
  /\ apc = "returned"
  /\ call_requests = API_MAX_RETRIES
  /\ n429 = API_MAX_RETRIES
  /\ api_result = "None"


(***************************************************************************)
(* Properties of the extractors                                            *)
(***************************************************************************)

\* a string of exactly 9 digits
NineDigits(s) ==
  /\ s # None
  /\ Len(s) = SirenLen
  /\ \A i \in 1..Len(s) : s[i] \in 48..57

\* an ISO date on or after 2019-01-01
OnOrAfterMinDate(d) == d # None /\ ~StrLess(d, MIN_DATE)

\* C16: the store build keeps a record if and only if its identifier is
\* exactly 9 digits and its closing date is on or after 2019-01-01.
C16_KeptIffNineDigitsAndRecent ==
  xpc = "build" =>
    (out_full # <<>> <=>
       (NineDigits(record.siren) /\ OnOrAfterMinDate(record.dateCloture)))


\* C20: for a record in the full encoding and the compact record that
\* extract_key_metrics_only makes of it, extract_financial_data gives the
\* same closing date and the same six values, and extract_bilans_from_json
\* gives the same closing date, six current-year and six prior-year values.
C20_EncodingsExtractAlike ==
  /\ xpc = "lookup" =>
       /\ out_full.date_cloture = out_compact.date_cloture
       /\ out_full.metrics = out_compact.metrics
  /\ xpc = "build" =>
       /\ Len(out_full) = Len(out_compact)
       /\ \A i \in 1..Len(out_full) :
            /\ out_full[i].date_cloture = out_compact[i].date_cloture
            /\ out_full[i].metrics = out_compact[i].metrics
            /\ out_full[i].metrics_prev = out_compact[i].metrics_prev


(***************************************************************************)
(* Properties of the query (SpecQuery)                                     *)
(***************************************************************************)

C24_IndexSortedBySirenMin ==
  ixpc # "idle" =>
    /\ \A i, j \in 1..Len(index) :
         i < j => StrLeq(index[i].siren_min, index[j].siren_min)
    /\ Len(index) =
         Cardinality({f \in Range(index_files) :
                        \E k \in 1..Len(zip_data[f]) : Truthy(zip_data[f][k].siren)})
    /\ \A i, j \in 1..Len(index) : i # j => index[i].file # index[j].file

(***************************************************************************)
(* Properties of the completed-shard counter (SpecBatch)                   *)
(***************************************************************************)

\* C29: completed_files is incremented exactly once per shard task and
\* never exceeds the number of shard tasks, also when a task raises or the
\* progress callback raises.
C29_CompletedCountsEachShardOnce ==
  bpc # "idle" =>
    /\ completed_files = Cardinality(collected)
    /\ completed_files <= Len(grouped)

(***************************************************************************)
(* Properties of a store build that meets a malformed shard (SpecStore)    *)
(***************************************************************************)

\* C25: a build that read a ZIP ends without an exception after it has gone
\* through every shard, whatever the shards hold (invalid JSON, records of
\* an unexpected shape); the rows extracted from the well-formed shards are
\* all inserted after the rows the store held, and counted.
C25_MalformedShardSkipped ==
  (upc = "built" /\ zip_len > 0) =>
    /\ ~raised
    /\ idx = zip_len
    /\ total = Len(extracted)
    /\ db.rows = init_db(pre).rows \o extracted

(***************************************************************************)
(* Frame of the adaptive delay (SpecApi)                                   *)
(***************************************************************************)

\* C26: a request of _request_search_api that ends in a network error or in
\* an HTTP error other than 429 leaves api_current_delay and
\* api_next_request_ts as they were; a step changes one of them only when
\* it is a request answered by 429 or by a success.
C26_ErrorLeavesDelayAlone ==
  [][/\ (api_requests' = api_requests + 1
          /\ last_resp' \in {"400", "500", "network_error"}) =>
            /\ api_current_delay' = api_current_delay
            /\ api_next_request_ts' = api_next_request_ts
     /\ (api_current_delay' # api_current_delay
          \/ api_next_request_ts' # api_next_request_ts) =>
            /\ api_requests' = api_requests + 1
            /\ last_resp' \in {"429", "200"}]_vars

\* an error met after a 429 had raised the delay: the raised delay and the
\* slot the 429 had set are still there
C26_Witness ==
  /\ last_resp \in {"500", "network_error"}
  /\ api_rate_limit_hits > 0
  /\ prev_delay > API_DELAY_SECONDS
  /\ api_current_delay = prev_delay
  /\ api_next_request_ts = resp_now

(***************************************************************************)
(* Spacing of the requests (SpecApi)                                       *)
(***************************************************************************)

\* C30: a request of _request_search_api is never issued before
\* api_next_request_ts; every request that is issued pushes
\* api_next_request_ts beyond its own time; and any two consecutive requests
\* (retries after an error included, across calls) are at least
\* API_DELAY_SECONDS apart.
C30_RequestsSpacedByDelay ==
  [][api_requests' = api_requests + 1 =>
       /\ resp_now' >= api_next_request_ts
       /\ api_next_request_ts' > resp_now'
       /\ api_requests >= 1 => resp_now' >= resp_now + API_DELAY_SECONDS]_vars

(***************************************************************************)
(* Properties of the compact conversion and of amount parsing (SpecExtract)*)
(***************************************************************************)

\* C21: extract_key_metrics_only applied to a record that is its own compact
\* output gives a record with the same six metric values, m1 and m2 of each
\* code: converting twice equals converting once.
C21_CompactConversionIdempotent ==
  xpc = "converted_twice" =>
    /\ DOMAIN out_compact.metrics = DOMAIN compact.metrics
    /\ \A code \in DOMAIN compact.metrics :
         /\ out_compact.metrics[code].m1 = compact.metrics[code].m1
         /\ out_compact.metrics[code].m2 = compact.metrics[code].m2


\* the amount that a value of m1 or m2 stands for: null for a null, an empty
\* string, "-" and a string that is no number; else its integer, without
\* blanks, divided by 100 when its magnitude is above 1000000000
StatedAmount(value) ==
  IF value.t \in {"null", "empty", "dash", "text"} THEN NoAmount
  ELSE LET magnitude == IF value.n < 0 THEN -value.n ELSE value.n
       IN  Amount(IF magnitude > 1000000000 THEN value.n \div 100 ELSE value.n)

\* C22: amount parsing strips blanks (" 1 234 " gives 1234), gives null for
\* the empty string, "-" and a string that is no number, divides by 100 a
\* number whose magnitude is above the cents threshold and leaves any other
\* number as it is: in the row of the store build and in the lookup's
\* metrics, the amount of each code of a compact record is the stated
\* amount of its m1 (and, in the row, of its m2).
C22_AmountParsing ==
  /\ xpc = "build" =>
       \A i \in 1..Len(out_compact) : \A code \in DOMAIN compact.metrics :
         /\ out_compact[i].metrics[code] = StatedAmount(compact.metrics[code].m1)
         /\ out_compact[i].metrics_prev[code] =
              StatedAmount(compact.metrics[code].m2)
  /\ xpc = "lookup" =>
       \A code \in DOMAIN compact.metrics :
         out_compact.metrics[code] = StatedAmount(compact.metrics[code].m1)

(***************************************************************************)
(* Properties of the fetch of a shard (SpecFetch, FairSpecFetch)           *)
(***************************************************************************)

\* records in the full encoding, and records that are all compact
HoldsFullEncoding(file) ==
  /\ file.state = "json"
  /\ file.data # <<>>
  /\ \A i \in 1..Len(file.data) : "bilanSaisi" \in file.data[i].keys
AllCompact(file) ==
  /\ file.state = "json"
  /\ \A i \in 1..Len(file.data) : "metrics" \in file.data[i].keys

\* what C27 says of a fetch that has returned
FetchMigratesCache ==
  fpc = "returned" =>
    /\ HoldsFullEncoding(cache_at_call) =>
         /\ fetch_result = Data(key_metrics_all(cache_at_call.data))
         /\ cache_file = CacheFile(fetch_result.data)
    /\ fetch_result.some =>
         /\ AllCompact(cache_file)
         /\ cache_file.data = fetch_result.data
         /\ prev_result.some => (conversions = 0 /\ fetch_result = prev_result)

FetchEndsWithinMaxRetries ==
  /\ [](downloads <= FTP_MAX_RETRIES)
  /\ []((fpc = "returned" /\ downloads > 0) =>
          IF fetch_result.some
          THEN fetch_result.data = key_metrics_all(ftp_shard)
          ELSE cache_file.state # "json" \/ write_failed)
  /\ [][(downloads' = downloads + 1 /\ fetch_result'.some) =>
          fpc' = "returned"]_vars
  /\ (fpc = "download") ~> (fpc = "returned")

C23_CallersNeverUnderWait ==
  cpc # <<>> =>
    /\ \A c1, c2 \in Callers :
         (c1 # c2 /\ cpc[c1] \in {"waited", "requested"}) =>
           cpc[c2] \notin {"waited", "requested"}
    /\ \A i \in 1..(Len(req_log) - 1) :
         req_log[i + 1] - req_log[i] >= API_DELAY_SECONDS

================================================================================
